---- MODULE Spec2Model ----
(***************************************************************************)
(* Model of the lambda7 tree generator (generate_baryon_tree.py) and of   *)
(* the data modules it reads (data/baryons.py, data/mesons.py,            *)
(* data/cycle.py).                                                         *)
(*                                                                         *)
(* Conventions.                                                            *)
(*  - A polynomial coefficient is a Python number (the dataclass fields    *)
(*    are typed float).  It is modelled in fixed point: the integer n      *)
(*    stands for n / Den, so the whole number k is Whole(k) = k * Den.     *)
(*  - Strings are ASCII: the power labels "π⁶" .. "π²" of the source are   *)
(*    written "pi^6" .. "pi^2", "π" is written "pi" and "e⁻ᵖⁱ" is written  *)
(*    "e^-pi".                                                             *)
(*  - Python's None is the value NoneVal.                                  *)
(***************************************************************************)
EXTENDS Integers, Sequences, FiniteSets, TLC

VARIABLES pc, inp, out

vars == <<pc, inp, out>>

(***************************************************************************)
(* Bounds of the model.                                                    *)
(***************************************************************************)
\* Resolution of a non-integer coefficient: n stands for n / Den.  Tenths
\* hold the halves and fifths of the tables exactly.
Den == 2 * 5
\* Largest magnitude of a synthetic whole coefficient of a particle.
MaxCoef == 1
\* Largest magnitude of a synthetic whole coefficient of a parent node.
MaxParent == 1
\* Largest magnitude of a whole coefficient handed to format_coeff alone.
MaxSingle == 12
\* Largest coefficient of a node, parent or grandparent of a diff chain.
MaxChain == 1
\* Longest synthetic node list handed to enrich_nodes_with_mass_data, and
\* longest synthetic magnetic-moment table.
MaxNodes == 2

Whole(k) == k * Den

IsWhole(c) == c % Den = 0

NoneVal == "None"

(***************************************************************************)
(* Python built-ins used by the generator.                                 *)
(***************************************************************************)
\* int(c): truncation toward zero of the number c.
int(c) == IF c >= 0 THEN c \div Den ELSE -((-c) \div Den)

abs(n) == IF n < 0 THEN -n ELSE n

Digit(d) == SubSeq("0123456789", d + 1, d + 1)

RECURSIVE NatStr(_)
NatStr(n) == IF n < 10 THEN Digit(n) ELSE NatStr(n \div 10) \o Digit(n % 10)

\* str(n) of a Python int, as an f-string renders it.
IntStr(n) == IF n < 0 THEN "-" \o NatStr(-n) ELSE NatStr(n)

\* Truthiness of a list element in `"".join(p for p in parts if p)`.
Truthy(s) == s # NoneVal /\ s # ""

RECURSIVE Join(_)
Join(parts) == IF parts = <<>> THEN "" ELSE Head(parts) \o Join(Tail(parts))

Take(s, n) == IF n <= 0 THEN "" ELSE SubSeq(s, 1, n)

Drop(s, n) == IF n >= Len(s) THEN "" ELSE SubSeq(s, n + 1, Len(s))

\* s.startswith(t)
StartsWith(s, t) == Len(s) >= Len(t) /\ Take(s, Len(t)) = t

\* t in s
Contains(s, t) == \E i \in 0..(Len(s) - Len(t)) : StartsWith(Drop(s, i), t)

\* s.strip(): the tables hold no other white space than the space
RECURSIVE lstrip(_)
lstrip(s) == IF StartsWith(s, " ") THEN lstrip(Drop(s, 1)) ELSE s

RECURSIVE rstrip(_)
rstrip(s) ==
    IF Len(s) > 0 /\ SubSeq(s, Len(s), Len(s)) = " "
    THEN rstrip(Take(s, Len(s) - 1)) ELSE s

strip(s) == rstrip(lstrip(s))

\* s.replace('\\pi', 'π')
RECURSIVE ReplacePi(_)
ReplacePi(s) ==
    IF s = "" THEN ""
    ELSE IF StartsWith(s, "\\pi") THEN "pi" \o ReplacePi(Drop(s, 3))
    ELSE Take(s, 1) \o ReplacePi(Drop(s, 1))

\* Index of the first "}" of s, 0 when it has none.
FirstClose(s) ==
    IF \E i \in 1..Len(s) : SubSeq(s, i, i) = "}"
    THEN CHOOSE i \in 1..Len(s) :
            /\ SubSeq(s, i, i) = "}"
            /\ \A j \in 1..(i - 1) : SubSeq(s, j, j) # "}"
    ELSE 0

(***************************************************************************)
(* generate_baryon_tree.py: latex_to_display                               *)
(***************************************************************************)
\* re.match(r'^[+-]?\d+$', s)
IsPlainNumber(s) ==
    LET digits == IF StartsWith(s, "+") \/ StartsWith(s, "-") THEN Drop(s, 1) ELSE s
    IN  /\ Len(digits) > 0
        /\ \A i \in 1..Len(digits) :
               \E d \in 0..9 : SubSeq(digits, i, i) = Digit(d)

NoMatch == [ ok |-> FALSE, sign |-> "", num |-> "", denom |-> "" ]

\* MatchFrac with sign = m.group(1), an absent sign left empty.
MatchFrac_sign_as_written(s, suffix) ==
    LET hasSign == StartsWith(s, "+") \/ StartsWith(s, "-")
        r0 == IF hasSign THEN Drop(s, 1) ELSE s
        r1 == Drop(r0, 6)
        i  == FirstClose(r1)
        r2 == Drop(r1, i)
        r3 == Drop(r2, 1)
        j  == FirstClose(r3)
        r4 == Drop(r3, j)
    IN  IF /\ StartsWith(r0, "\\frac{")
           /\ i >= 2
           /\ StartsWith(r2, "{")
           /\ j >= 2
           /\ r4 = suffix
        THEN [ ok |-> TRUE, sign |-> IF hasSign THEN Take(s, 1) ELSE "",
               num |-> Take(r1, i - 1), denom |-> Take(r3, j - 1) ]
        ELSE NoMatch

\* re.match(r'^([+-])?\\frac\{([^}]+)\}\{([^}]+)\}' + suffix + '$', s), with
\* sign = m.group(1) or '+', num = m.group(2), denom = m.group(3).
MatchFrac(s, suffix) ==
    LET hasSign == StartsWith(s, "+") \/ StartsWith(s, "-")
        r0 == IF hasSign THEN Drop(s, 1) ELSE s
        r1 == Drop(r0, 6)
        i  == FirstClose(r1)
        r2 == Drop(r1, i)
        r3 == Drop(r2, 1)
        j  == FirstClose(r3)
        r4 == Drop(r3, j)
    IN  IF /\ StartsWith(r0, "\\frac{")
           /\ i >= 2
           /\ StartsWith(r2, "{")
           /\ j >= 2
           /\ r4 = suffix
        THEN [ ok |-> TRUE, sign |-> IF hasSign THEN Take(s, 1) ELSE "+",
               num |-> Take(r1, i - 1), denom |-> Take(r3, j - 1) ]
        ELSE NoMatch

\* latex_to_display without its rejection of \left and \right.
latex_to_display_no_rejection(latex) ==
    IF latex = NoneVal \/ latex = "" THEN NoneVal
    ELSE LET s  == strip(latex)
             m  == MatchFrac(s, "")
             m2 == MatchFrac(s, "e^{-\\pi}")
         IN  IF s = "-\\frac{6}{5}\\left(\\pi - e^{-\\pi}\\right)"
             THEN "-(6/5)(pi - e^-pi)"
             ELSE IF s = "-\\pi - \\frac{1}{\\pi}" THEN "-pi - 1/pi"
             ELSE IF IsPlainNumber(s)
             THEN IF StartsWith(s, "+") \/ StartsWith(s, "-") THEN s ELSE "+" \o s
             ELSE IF m.ok
             THEN m.sign \o ReplacePi(m.num) \o "/" \o ReplacePi(m.denom)
             ELSE IF m2.ok
             THEN m2.sign \o "(" \o m2.num \o "/" \o m2.denom \o ")e^-pi"
             ELSE NoneVal

\* latex_to_display rejecting \left and \right before every literal.
latex_to_display_rejection_first(latex) ==
    IF latex = NoneVal \/ latex = "" THEN NoneVal
    ELSE LET s  == strip(latex)
             m  == MatchFrac(s, "")
             m2 == MatchFrac(s, "e^{-\\pi}")
         IN  IF Contains(latex, "\\left") \/ Contains(latex, "\\right")
             THEN NoneVal
             ELSE IF s = "-\\frac{6}{5}\\left(\\pi - e^{-\\pi}\\right)"
             THEN "-(6/5)(pi - e^-pi)"
             ELSE IF s = "-\\pi - \\frac{1}{\\pi}" THEN "-pi - 1/pi"
             ELSE IF IsPlainNumber(s)
             THEN IF StartsWith(s, "+") \/ StartsWith(s, "-") THEN s ELSE "+" \o s
             ELSE IF m.ok
             THEN m.sign \o ReplacePi(m.num) \o "/" \o ReplacePi(m.denom)
             ELSE IF m2.ok
             THEN m2.sign \o "(" \o m2.num \o "/" \o m2.denom \o ")e^-pi"
             ELSE NoneVal

latex_to_display(latex) ==
    IF latex = NoneVal \/ latex = "" THEN NoneVal
    ELSE LET s  == strip(latex)
             m  == MatchFrac(s, "")
             m2 == MatchFrac(s, "e^{-\\pi}")
         IN  IF s = "-\\frac{6}{5}\\left(\\pi - e^{-\\pi}\\right)"
             THEN "-(6/5)(pi - e^-pi)"
             ELSE IF Contains(latex, "\\left") \/ Contains(latex, "\\right")
             THEN NoneVal
             ELSE IF s = "-\\pi - \\frac{1}{\\pi}" THEN "-pi - 1/pi"
             ELSE IF IsPlainNumber(s)
             THEN IF StartsWith(s, "+") \/ StartsWith(s, "-") THEN s ELSE "+" \o s
             ELSE IF m.ok
             THEN m.sign \o ReplacePi(m.num) \o "/" \o ReplacePi(m.denom)
             ELSE IF m2.ok
             THEN m2.sign \o "(" \o m2.num \o "/" \o m2.denom \o ")e^-pi"
             ELSE NoneVal

(***************************************************************************)
(* generate_baryon_tree.py: format_coeff                                   *)
(***************************************************************************)
\* format_coeff with the abs() of its last branch forgotten.
format_coeff_no_abs(c, power_str, is_first) ==
    IF c = 0 THEN NoneVal
    ELSE LET c_int == int(c) IN
         IF is_first
         THEN IF c_int = 1 THEN power_str
              ELSE IF c_int = -1 THEN "-" \o power_str
              ELSE IntStr(c_int) \o power_str
         ELSE IF c_int = 1 THEN " + " \o power_str
              ELSE IF c_int = -1 THEN " - " \o power_str
              ELSE IF c_int > 0 THEN " + " \o IntStr(c_int) \o power_str
              ELSE " - " \o IntStr(c_int) \o power_str

format_coeff(c, power_str, is_first) ==
    IF c = 0 THEN NoneVal
    ELSE LET c_int == int(c) IN
         IF is_first
         THEN IF c_int = 1 THEN power_str
              ELSE IF c_int = -1 THEN "-" \o power_str
              ELSE IntStr(c_int) \o power_str
         ELSE IF c_int = 1 THEN " + " \o power_str
              ELSE IF c_int = -1 THEN " - " \o power_str
              ELSE IF c_int > 0 THEN " + " \o IntStr(c_int) \o power_str
              ELSE " - " \o IntStr(abs(c_int)) \o power_str

(***************************************************************************)
(* generate_baryon_tree.py: format_diff                                    *)
(***************************************************************************)
\* DiffTerms with the parent's c3 left out of the difference.
DiffTerms_ignores_parent_c3(p, parent_c5, parent_c4, parent_c3, parent_c2) ==
    << IF "c6" \in DOMAIN p THEN p.c6 ELSE 0,
       p.c5 - parent_c5,
       p.c4 - parent_c4,
       p.c3,
       p.c2 - parent_c2 >>

\* The numbers format_diff hands to format_coeff, highest power first:
\* p.c6 itself, then the differences from the parent for c5 .. c2.
DiffTerms(p, parent_c5, parent_c4, parent_c3, parent_c2) ==
    << IF "c6" \in DOMAIN p THEN p.c6 ELSE 0,
       p.c5 - parent_c5,
       p.c4 - parent_c4,
       p.c3 - parent_c3,
       p.c2 - parent_c2 >>

PowerLabels == << "pi^6", "pi^5", "pi^4", "pi^3", "pi^2" >>

\* One `if diff: parts.append(format_coeff(diff, label, is_first=len(parts)==0))`.
AppendTerm(parts, d, label) ==
    IF d # 0 THEN Append(parts, format_coeff(d, label, Len(parts) = 0))
    ELSE parts

\* format_diff with the c2 term appended before the c3 term.
format_diff_c2_before_c3(p, parent_c5, parent_c4, parent_c3, parent_c2) ==
    LET t      == DiffTerms(p, parent_c5, parent_c4, parent_c3, parent_c2)
        parts1 == AppendTerm(<<>>,   t[1], PowerLabels[1])
        parts2 == AppendTerm(parts1, t[2], PowerLabels[2])
        parts3 == AppendTerm(parts2, t[3], PowerLabels[3])
        parts4 == AppendTerm(parts3, t[5], PowerLabels[5])
        parts  == AppendTerm(parts4, t[4], PowerLabels[4])
    IN  IF parts # <<>> THEN Join(SelectSeq(parts, Truthy)) ELSE ""

\* format_diff with the "0" fallback of format_full_formula for no parts.
format_diff_zero_fallback(p, parent_c5, parent_c4, parent_c3, parent_c2) ==
    LET t      == DiffTerms(p, parent_c5, parent_c4, parent_c3, parent_c2)
        parts1 == AppendTerm(<<>>,   t[1], PowerLabels[1])
        parts2 == AppendTerm(parts1, t[2], PowerLabels[2])
        parts3 == AppendTerm(parts2, t[3], PowerLabels[3])
        parts4 == AppendTerm(parts3, t[4], PowerLabels[4])
        parts  == AppendTerm(parts4, t[5], PowerLabels[5])
    IN  IF parts # <<>> THEN Join(SelectSeq(parts, Truthy)) ELSE "0"

format_diff(p, parent_c5, parent_c4, parent_c3, parent_c2) ==
    LET t      == DiffTerms(p, parent_c5, parent_c4, parent_c3, parent_c2)
        parts1 == AppendTerm(<<>>,   t[1], PowerLabels[1])
        parts2 == AppendTerm(parts1, t[2], PowerLabels[2])
        parts3 == AppendTerm(parts2, t[3], PowerLabels[3])
        parts4 == AppendTerm(parts3, t[4], PowerLabels[4])
        parts  == AppendTerm(parts4, t[5], PowerLabels[5])
    IN  IF parts # <<>> THEN Join(SelectSeq(parts, Truthy)) ELSE ""

(***************************************************************************)
(* generate_baryon_tree.py: format_correction                              *)
(***************************************************************************)
\* format_correction switched on: the correction follows the polynomial
\* with " + " or " - ", and stands alone when there is no polynomial.
format_correction_enabled(corr, has_poly) ==
    IF corr = NoneVal THEN ""
    ELSE IF ~has_poly THEN corr
    ELSE IF StartsWith(corr, "-") THEN " - " \o Drop(corr, 1)
    ELSE IF StartsWith(corr, "+") THEN " + " \o Drop(corr, 1)
    ELSE " + " \o corr

format_correction(corr, has_poly) == ""

(***************************************************************************)
(* data/baryons.py: the particle tables.  Particle(...) keeps the fields   *)
(* the generator reads; has_correction_func says whether correction_func   *)
(* is set.                                                                 *)
(***************************************************************************)
Particle(node_id, c6, c5, c4, c3, c2, has_correction_func, correction_latex) ==
    [ node_id |-> node_id,
      c6 |-> Whole(c6), c5 |-> Whole(c5), c4 |-> Whole(c4),
      c3 |-> Whole(c3), c2 |-> Whole(c2),
      has_correction_func |-> has_correction_func,
      correction_latex |-> correction_latex ]

PARTICLES ==
    "proton" :> Particle("p", 0, 6, 0, 0, 0,
        TRUE, "\\frac{4}{5}e^{-\\pi}") @@
    "neutron" :> Particle("n", 0, 6, 0, 0, 0,
        TRUE, "\\frac{8}{\\pi}") @@
    "Lambda" :> Particle("L0", 0, 7, 0, 1, 1,
        TRUE, "\\frac{\\varphi}{5}") @@
    "Sigma_plus" :> Particle("S_plus", 0, 7, 0, 6, 0,
        TRUE, "-\\frac{2}{\\pi}") @@
    "Sigma_zero" :> Particle("S_zero", 0, 7, 0, 6, 1,
        TRUE, "-4") @@
    "Sigma_minus" :> Particle("S_minus", 0, 7, 0, 6, 2,
        TRUE, "-\\frac{23}{5}") @@
    "Xi_zero" :> Particle("X_zero", 0, 8, 1, 1, 0,
        TRUE, "-\\pi - \\frac{1}{\\pi}") @@
    "Xi_minus" :> Particle("X_minus", 0, 8, 1, 1, 1,
        TRUE, "\\frac{1}{5\\pi}") @@
    "Delta" :> Particle("D", 0, 6, 6, 0, -1,
        TRUE, "\\frac{1}{5}\\left(\\pi - 2 + 4e^{-\\pi}\\right)") @@
    "Sigma_star_plus" :> Particle("Ss_plus", 0, 7, 6, 0, -2,
        TRUE, "\\frac{1}{5}\\left(\\pi - 7 - e^{-\\pi}\\right)") @@
    "Sigma_star_zero" :> Particle("Ss_zero", 0, 7, 6, 0, -2,
        TRUE, "+1") @@
    "Sigma_star_minus" :> Particle("Ss_minus", 0, 7, 6, 0, -1,
        TRUE, "-2") @@
    "Xi_star_zero" :> Particle("Xs_zero", 0, 8, 6, -1, 0,
        TRUE, "-\\frac{1}{5}(5\\pi + 4)") @@
    "Xi_star_minus" :> Particle("Xs_minus", 0, 8, 6, -1, 0,
        TRUE, "\\frac{1}{5}(4\\pi - 1)") @@
    "Omega" :> Particle("Om", 0, 9, 6, -2, 0,
        TRUE, "-\\frac{6}{5}\\left(\\pi - e^{-\\pi}\\right)")

CHARM_PARTICLES ==
    "Lambda_c" :> Particle("Lc", 0, 14, 2, 0, 0,
        TRUE, "-\\frac{23}{5}") @@
    "Sigma_c_pp" :> Particle("Sc_pp", 0, 14, 5, 1, 0,
        TRUE, "-\\frac{\\pi}{5} + \\frac{3}{5}") @@
    "Sigma_c_plus" :> Particle("Sc_plus", 0, 14, 5, 1, 0,
        TRUE, "\\frac{3\\pi}{5} - 4") @@
    "Sigma_c_zero" :> Particle("Sc_zero", 0, 14, 5, 1, 0,
        TRUE, "\\pi - \\frac{18}{5}") @@
    "Xi_c_plus" :> Particle("Xc_plus", 0, 15, 2, 1, 1,
        TRUE, "\\frac{7\\pi}{5} - \\frac{6}{5}") @@
    "Xi_c_zero" :> Particle("Xc_zero", 0, 15, 2, 1, 2,
        TRUE, "-\\pi + \\frac{9}{5}") @@
    "Omega_c" :> Particle("Oc_zero", 0, 16, 4, 0, -1,
        TRUE, "-\\frac{4\\pi}{5} + \\frac{4}{5}") @@
    "Sigma_c_star_pp" :> Particle("Scs_pp", 0, 14, 6, 2, 0,
        TRUE, "-\\pi + \\frac{4}{5}") @@
    "Sigma_c_star_plus" :> Particle("Scs_plus", 0, 14, 6, 2, 0,
        TRUE, "-\\frac{4\\pi}{5} - \\frac{8}{5}") @@
    "Sigma_c_star_zero" :> Particle("Scs_zero", 0, 14, 6, 2, 0,
        TRUE, "-\\frac{11}{5}") @@
    "Xi_c_star_plus" :> Particle("Xcs_plus", 0, 15, 6, 0, 0,
        TRUE, "\\frac{4\\pi}{5}") @@
    "Xi_c_star_zero" :> Particle("Xcs_zero", 0, 15, 6, 0, 0,
        TRUE, "\\frac{13\\pi}{10}") @@
    "Omega_c_star" :> Particle("Ocs_zero", 0, 16, 5, 1, 0,
        TRUE, "-\\ln\\pi - \\frac{1}{2}")

DOUBLE_CHARM_PARTICLES ==
    "Xi_cc_pp" :> Particle("Xcc", 0, 22, 3, 2, 0,
        TRUE, "\\frac{\\pi}{6}")

BOTTOM_PARTICLES ==
    "Lambda_b" :> Particle("Lb", 0, 36, 0, 0, -2,
        TRUE, "\\frac{\\pi}{10}") @@
    "Sigma_b_plus" :> Particle("Sb_plus", 0, 36, 3, 2, 0,
        TRUE, "\\frac{1}{30}") @@
    "Sigma_b_minus" :> Particle("Sb_minus", 0, 36, 4, -1, 0,
        TRUE, "\\frac{28}{5}") @@
    "Sigma_b_star_plus" :> Particle("Sbs_plus", 0, 36, 3, 2, 4,
        TRUE, "-\\frac{7}{9}") @@
    "Sigma_b_star_minus" :> Particle("Sbs_minus", 0, 36, 4, 0, 1,
        TRUE, "\\frac{21}{10}") @@
    "Xi_b_zero" :> Particle("Xb_zero", 0, 37, 0, 0, 1,
        TRUE, "\\frac{19}{10}") @@
    "Xi_b_minus" :> Particle("Xb_minus", 0, 37, 0, 0, 2,
        TRUE, "2") @@
    "Omega_b" :> Particle("Ob", 0, 38, 2, 0, 1,
        TRUE, "-\\frac{3}{2}")

\* {**PARTICLES, **CHARM_PARTICLES, **BOTTOM_PARTICLES, **DOUBLE_CHARM_PARTICLES}:
\* the keys of the four tables are pairwise distinct.
ALL_PARTICLES ==
    PARTICLES @@ CHARM_PARTICLES @@ BOTTOM_PARTICLES @@ DOUBLE_CHARM_PARTICLES

get_correction_display(key) ==
    IF key \notin DOMAIN ALL_PARTICLES THEN NoneVal
    ELSE latex_to_display(ALL_PARTICLES[key].correction_latex)

(***************************************************************************)
(* generate_baryon_tree.py: the node lists of generate_light_baryon_data,  *)
(* generate_charm_baryon_data and generate_bottom_baryon_data, in the      *)
(* order of their nodes.append calls.  Each node but the root is followed  *)
(* by the edges.append of its one edge, whose source is kept here.         *)
(*   with_corr: the node's diff adds format_correction(...) to the poly.   *)
(*   style: "plain" (sublabel = diff), "empty" (diff if diff else ''),     *)
(*          "base" (diff if diff else '(base)').                           *)
(***************************************************************************)
VirtualNode(id, source) ==
    [ type |-> "virtual", id |-> id, key |-> NoneVal, source |-> source,
      parent_c5 |-> 0, parent_c4 |-> 0, parent_c3 |-> 0, parent_c2 |-> 0,
      with_corr |-> FALSE, style |-> "plain" ]

\* ParticleNode with half a unit added to the parent's pi^4 coefficient.
ParticleNode_fractional_parent(type, key, source, parent_c5, parent_c4, parent_c3, parent_c2, with_corr, style) ==
    [ type |-> type, id |-> ALL_PARTICLES[key].node_id, key |-> key,
      source |-> source,
      parent_c5 |-> Whole(parent_c5), parent_c4 |-> Whole(parent_c4) + (Den \div 2),
      parent_c3 |-> Whole(parent_c3), parent_c2 |-> Whole(parent_c2),
      with_corr |-> with_corr, style |-> style ]

ParticleNode(type, key, source, parent_c5, parent_c4, parent_c3, parent_c2, with_corr, style) ==
    [ type |-> type, id |-> ALL_PARTICLES[key].node_id, key |-> key,
      source |-> source,
      parent_c5 |-> Whole(parent_c5), parent_c4 |-> Whole(parent_c4),
      parent_c3 |-> Whole(parent_c3), parent_c2 |-> Whole(parent_c2),
      with_corr |-> with_corr, style |-> style ]

LIGHT_TREE ==
    <<
       VirtualNode("root6", NoneVal),
       ParticleNode("particle", "proton", "root6", 6, 0, 0, 0, TRUE, "empty"),
       ParticleNode("particle", "neutron", "root6", 6, 0, 0, 0, TRUE, "empty"),
       ParticleNode("spin32", "Delta", "root6", 6, 0, 0, 0, FALSE, "plain"),
       VirtualNode("v7", "root6"),
       ParticleNode("particle", "Lambda", "v7", 7, 0, 0, 0, TRUE, "plain"),
       VirtualNode("vS6pi3", "v7"),
       ParticleNode("particle", "Sigma_plus", "vS6pi3", 7, 0, 6, 0, TRUE, "plain"),
       ParticleNode("particle", "Sigma_zero", "vS6pi3", 7, 0, 6, 0, TRUE, "plain"),
       ParticleNode("particle", "Sigma_minus", "vS6pi3", 7, 0, 6, 0, TRUE, "plain"),
       VirtualNode("vSs6pi4", "v7"),
       ParticleNode("spin32", "Sigma_star_plus", "vSs6pi4", 7, 6, 0, 0, TRUE, "plain"),
       ParticleNode("spin32", "Sigma_star_zero", "vSs6pi4", 7, 6, 0, 0, TRUE, "plain"),
       ParticleNode("spin32", "Sigma_star_minus", "vSs6pi4", 7, 6, 0, 0, TRUE, "plain"),
       VirtualNode("v8", "v7"),
       VirtualNode("vXpi4pi3", "v8"),
       ParticleNode("particle", "Xi_zero", "vXpi4pi3", 8, 1, 1, 0, TRUE, "plain"),
       ParticleNode("particle", "Xi_minus", "vXpi4pi3", 8, 1, 1, 0, TRUE, "plain"),
       VirtualNode("vXs6pi4", "v8"),
       ParticleNode("spin32", "Xi_star_zero", "vXs6pi4", 8, 6, -1, 0, TRUE, "plain"),
       ParticleNode("spin32", "Xi_star_minus", "vXs6pi4", 8, 6, -1, 0, TRUE, "plain"),
       VirtualNode("v9", "v8"),
       ParticleNode("spin32", "Omega", "v9", 9, 0, 0, 0, TRUE, "plain")
    >>

CHARM_TREE ==
    <<
       VirtualNode("root14", NoneVal),
       ParticleNode("particle", "Lambda_c", "root14", 14, 0, 0, 0, TRUE, "base"),
       VirtualNode("vSc", "root14"),
       ParticleNode("particle", "Sigma_c_pp", "vSc", 14, 5, 1, 0, TRUE, "plain"),
       ParticleNode("particle", "Sigma_c_plus", "vSc", 14, 5, 1, 0, TRUE, "plain"),
       ParticleNode("particle", "Sigma_c_zero", "vSc", 14, 5, 1, 0, TRUE, "plain"),
       VirtualNode("vScs", "root14"),
       ParticleNode("spin32", "Sigma_c_star_pp", "vScs", 14, 6, 2, 0, TRUE, "plain"),
       ParticleNode("spin32", "Sigma_c_star_plus", "vScs", 14, 6, 2, 0, TRUE, "plain"),
       ParticleNode("spin32", "Sigma_c_star_zero", "vScs", 14, 6, 2, 0, TRUE, "plain"),
       VirtualNode("v15", "root14"),
       VirtualNode("vXc", "v15"),
       ParticleNode("particle", "Xi_c_plus", "vXc", 15, 2, 1, 0, TRUE, "plain"),
       ParticleNode("particle", "Xi_c_zero", "vXc", 15, 2, 1, 0, TRUE, "plain"),
       VirtualNode("vXcs", "v15"),
       ParticleNode("spin32", "Xi_c_star_plus", "vXcs", 15, 6, 0, 0, TRUE, "plain"),
       ParticleNode("spin32", "Xi_c_star_zero", "vXcs", 15, 6, 0, 0, TRUE, "plain"),
       VirtualNode("v16", "v15"),
       ParticleNode("particle", "Omega_c", "v16", 16, 0, 0, 0, TRUE, "plain"),
       ParticleNode("spin32", "Omega_c_star", "v16", 16, 0, 0, 0, TRUE, "plain"),
       ParticleNode("particle", "Xi_cc_pp", "root14", 14, 0, 0, 0, TRUE, "plain")
    >>

BOTTOM_TREE ==
    <<
       VirtualNode("root36", NoneVal),
       ParticleNode("particle", "Lambda_b", "root36", 36, 0, 0, 0, TRUE, "base"),
       ParticleNode("particle", "Sigma_b_plus", "root36", 36, 0, 0, 0, TRUE, "plain"),
       ParticleNode("particle", "Sigma_b_minus", "root36", 36, 0, 0, 0, TRUE, "plain"),
       VirtualNode("v37", "root36"),
       ParticleNode("particle", "Xi_b_zero", "v37", 37, 0, 0, 0, TRUE, "plain"),
       ParticleNode("particle", "Xi_b_minus", "v37", 37, 0, 0, 0, TRUE, "plain"),
       VirtualNode("v38", "v37"),
       ParticleNode("particle", "Omega_b", "v38", 38, 0, 0, 0, TRUE, "plain")
    >>
(***************************************************************************)
(* data/cycle.py: the declared family trees.  A node keeps its id, its     *)
(* parent, the coefficients it anchors (only the keys it declares) and its *)
(* particle keys; nodes and edges are in declaration order.                *)
(***************************************************************************)
\* CycleNode with every non-root node declared as its own parent.
CycleNode_own_parent(id, parent, anchors, particles) ==
    [ id |-> id, parent |-> IF parent = NoneVal THEN NoneVal ELSE id,
      anchors |-> anchors, particles |-> particles ]

CycleNode(id, parent, anchors, particles) ==
    [ id |-> id, parent |-> parent, anchors |-> anchors, particles |-> particles ]

LIGHT_CYCLE ==
    [ root  |-> "root6",
      nodes |-> <<
          CycleNode("root6", NoneVal, "c5" :> 6,
                    <<"proton", "neutron">>),
          CycleNode("vD6pi4", "root6", "c5" :> 6 @@ "c4" :> 6,
                    <<"Delta">>),
          CycleNode("v7", "root6", "c5" :> 7,
                    <<"Lambda">>),
          CycleNode("vS6pi3", "v7", "c5" :> 7 @@ "c3" :> 6,
                    <<"Sigma_plus", "Sigma_zero", "Sigma_minus">>),
          CycleNode("vSs6pi4", "v7", "c5" :> 7 @@ "c4" :> 6,
                    <<"Sigma_star_plus", "Sigma_star_zero", "Sigma_star_minus">>),
          CycleNode("v8", "v7", "c5" :> 8,
                    <<>>),
          CycleNode("vXpi4pi3", "v8", "c5" :> 8 @@ "c4" :> 1 @@ "c3" :> 1,
                    <<"Xi_zero", "Xi_minus">>),
          CycleNode("vXs6pi4", "v8", "c5" :> 8 @@ "c4" :> 6 @@ "c3" :> -1,
                    <<"Xi_star_zero", "Xi_star_minus">>),
          CycleNode("v9", "v8", "c5" :> 9,
                    <<>>),
          CycleNode("vOm6pi4", "v9", "c5" :> 9 @@ "c4" :> 6 @@ "c3" :> -2,
                    <<"Omega">>)
      >>,
      edges |-> <<
          <<"root6", "vD6pi4">>,
          <<"root6", "v7">>,
          <<"v7", "vS6pi3">>,
          <<"v7", "vSs6pi4">>,
          <<"v7", "v8">>,
          <<"v8", "vXpi4pi3">>,
          <<"v8", "vXs6pi4">>,
          <<"v8", "v9">>,
          <<"v9", "vOm6pi4">>
      >> ]

CHARM_CYCLE ==
    [ root  |-> "root14",
      nodes |-> <<
          CycleNode("root14", NoneVal, "c5" :> 14,
                    <<"Lambda_c">>),
          CycleNode("vSc", "root14", "c5" :> 14 @@ "c4" :> 5 @@ "c3" :> 1,
                    <<"Sigma_c_pp", "Sigma_c_plus", "Sigma_c_zero">>),
          CycleNode("vScs", "root14", "c5" :> 14 @@ "c4" :> 6 @@ "c3" :> 2,
                    <<"Sigma_c_star_pp", "Sigma_c_star_plus", "Sigma_c_star_zero">>),
          CycleNode("v15", "root14", "c5" :> 15,
                    <<>>),
          CycleNode("vXc", "v15", "c5" :> 15 @@ "c4" :> 2 @@ "c3" :> 1,
                    <<"Xi_c_plus", "Xi_c_zero">>),
          CycleNode("vXcs", "v15", "c5" :> 15 @@ "c4" :> 6,
                    <<"Xi_c_star_plus", "Xi_c_star_zero">>),
          CycleNode("v16", "v15", "c5" :> 16,
                    <<"Omega_c", "Omega_c_star">>)
      >>,
      edges |-> <<
          <<"root14", "vSc">>,
          <<"root14", "vScs">>,
          <<"root14", "v15">>,
          <<"v15", "vXc">>,
          <<"v15", "vXcs">>,
          <<"v15", "v16">>
      >> ]

BOTTOM_CYCLE ==
    [ root  |-> "root36",
      nodes |-> <<
          CycleNode("root36", NoneVal, "c5" :> 36,
                    <<"Lambda_b", "Sigma_b_plus", "Sigma_b_minus">>),
          CycleNode("v37", "root36", "c5" :> 37,
                    <<"Xi_b_zero", "Xi_b_minus">>),
          CycleNode("v38", "v37", "c5" :> 38,
                    <<"Omega_b">>)
      >>,
      edges |-> <<
          <<"root36", "v37">>,
          <<"v37", "v38">>
      >> ]
(***************************************************************************)
(* generate_baryon_tree.py: one particle node of a generate_*_baryon_data  *)
(* function (for the proton, lines 295-313): the correction display, the   *)
(* polynomial diff, the diff display and the sublabel.                     *)
(***************************************************************************)
ParticleNodeData(p, corr, node) ==
    LET poly == format_diff(p, node.parent_c5, node.parent_c4,
                            node.parent_c3, node.parent_c2)
        diff == IF node.with_corr
                THEN poly \o format_correction(corr, poly # "")
                ELSE poly
    IN  [ id         |-> p.node_id,
          type       |-> node.type,
          sublabel   |-> IF diff # "" THEN diff
                         ELSE IF node.style = "base" THEN "(base)" ELSE "",
          correction |-> corr,
          poly       |-> poly,
          diff       |-> diff ]

(***************************************************************************)
(* Inputs.                                                                 *)
(***************************************************************************)
Range(f) == { f[x] : x \in DOMAIN f }

WholeUpTo(m) == { Whole(k) : k \in -m..m }

WholeFromZero(m) == { Whole(k) : k \in 0..m }

\* A coefficient that is not a whole number (one half).
Half == Den \div 2

SingleCoefs ==
    WholeUpTo(MaxSingle) \cup { Half, -Half, Whole(1) + Half, -(Whole(1) + Half) }

CoeffCalls ==
    [ op : {"format_coeff"}, c : SingleCoefs,
      power_str : Range(PowerLabels), is_first : BOOLEAN ]

Coefs(p) == [ c6 |-> p.c6, c5 |-> p.c5, c4 |-> p.c4, c3 |-> p.c3, c2 |-> p.c2 ]

SynthCoefs ==
    [ c6 : WholeUpTo(MaxCoef), c5 : WholeUpTo(MaxCoef), c4 : WholeUpTo(MaxCoef),
      c3 : WholeUpTo(MaxCoef), c2 : WholeUpTo(MaxCoef) ]

TableCoefs == { Coefs(p) : p \in Range(ALL_PARTICLES) }

SynthParents ==
    [ c5 : WholeUpTo(MaxParent), c4 : WholeUpTo(MaxParent),
      c3 : WholeUpTo(MaxParent), c2 : WholeUpTo(MaxParent) ]

\* The coefficients a declared tree node anchors, a key it does not declare
\* counting as 0 (the default of format_diff's parent arguments).
Anchor(n, k) == IF k \in DOMAIN n.anchors THEN Whole(n.anchors[k]) ELSE 0

AllCycles == << LIGHT_CYCLE, CHARM_CYCLE, BOTTOM_CYCLE >>

CycleParents ==
    { [ c5 |-> Anchor(n, "c5"), c4 |-> Anchor(n, "c4"),
        c3 |-> Anchor(n, "c3"), c2 |-> Anchor(n, "c2") ] :
      n \in UNION { Range(AllCycles[i].nodes) : i \in 1..3 } }

DiffCalls ==
    [ op : {"format_diff"}, p : SynthCoefs \cup TableCoefs,
      parent : SynthParents \cup CycleParents ]

Trees == [ light |-> LIGHT_TREE, charm |-> CHARM_TREE, bottom |-> BOTTOM_TREE ]

TableNodeCalls ==
    { [ op |-> "node", p |-> ALL_PARTICLES[n.key], node |-> n ] :
      n \in { m \in UNION { Range(Trees[t]) : t \in DOMAIN Trees } :
                  m.type # "virtual" } }

LatexSamples ==
    { "", "-4", "+1", "2", "\\frac{8}{\\pi}", "\\frac{4}{5}e^{-\\pi}",
      "\\frac{1}{5}\\left(\\pi - 2\\right)" }

SynthNodeCalls ==
    { [ op |-> "node",
        p |-> [ node_id |-> "x", c6 |-> c.c6, c5 |-> c.c5, c4 |-> c.c4,
                c3 |-> c.c3, c2 |-> c.c2, has_correction_func |-> (l # ""),
                correction_latex |-> l ],
        node |-> [ type |-> "particle", id |-> "x", key |-> NoneVal,
                   source |-> "root", parent_c5 |-> q, parent_c4 |-> 0,
                   parent_c3 |-> 0, parent_c2 |-> 0,
                   with_corr |-> TRUE, style |-> s ] ] :
      c \in { d \in SynthCoefs : d.c6 >= 0 }, q \in WholeFromZero(MaxParent),
      l \in LatexSamples, s \in { "plain", "empty", "base" } }

Inputs == CoeffCalls \cup DiffCalls \cup TableNodeCalls \cup SynthNodeCalls

(***************************************************************************)
(* The state machine: an input is drawn, then the function is applied.     *)
(***************************************************************************)
Init ==
    /\ pc = "ready"
    /\ inp \in Inputs
    /\ out = NoneVal

CallFormatCoeff ==
    /\ pc = "ready"
    /\ inp.op = "format_coeff"
    /\ out' = format_coeff(inp.c, inp.power_str, inp.is_first)
    /\ pc' = "done"
    /\ UNCHANGED inp

CallFormatDiff ==
    /\ pc = "ready"
    /\ inp.op = "format_diff"
    /\ out' = format_diff(inp.p, inp.parent.c5, inp.parent.c4,
                          inp.parent.c3, inp.parent.c2)
    /\ pc' = "done"
    /\ UNCHANGED inp

GenerateNode ==
    /\ pc = "ready"
    /\ inp.op = "node"
    /\ out' = ParticleNodeData(
                  inp.p,
                  IF inp.node.key # NoneVal
                  THEN get_correction_display(inp.node.key)
                  ELSE latex_to_display(inp.p.correction_latex),
                  inp.node)
    /\ pc' = "done"
    /\ UNCHANGED inp

Next == CallFormatCoeff \/ CallFormatDiff \/ GenerateNode

Spec == Init /\ [][Next]_vars

Done(op) == pc = "done" /\ inp.op = op

(***************************************************************************)
(* Claims about the diff formatter.                                        *)
(***************************************************************************)
C1_Expected(d, L, is_first) ==
    IF is_first
    THEN IF d = 1 THEN L
         ELSE IF d = -1 THEN "-" \o L
         ELSE IntStr(d) \o L
    ELSE IF d = 1 THEN " + " \o L
         ELSE IF d = -1 THEN " - " \o L
         ELSE IF d > 1 THEN " + " \o IntStr(d) \o L
         ELSE " - " \o IntStr(-d) \o L

XiStarCoefs ==
    [ c6 |-> 0, c5 |-> Whole(8), c4 |-> Whole(6), c3 |-> Whole(-1), c2 |-> 0 ]

\* C1: for a non-zero integer d, format_coeff(d, L, is_first) is L, "-L" or
\* "dL" when first, and " + L", " - L", " + dL" or " - |d|L" otherwise;
\* coefficients {5:8, 4:6, 3:-1} against parent {5:8} give "6pi^4 - pi^3".
C1_FormatCoeff ==
    /\ (Done("format_coeff") /\ inp.c # 0 /\ IsWhole(inp.c))
          => out = C1_Expected(inp.c \div Den, inp.power_str, inp.is_first)
    /\ ( /\ Done("format_diff")
         /\ inp.p = XiStarCoefs
         /\ inp.parent = [ c5 |-> Whole(8), c4 |-> 0, c3 |-> 0, c2 |-> 0 ] )
          => out = "6pi^4 - pi^3"

C1_Witness ==
    /\ Done("format_coeff")
    /\ inp.c = Whole(-3) /\ inp.power_str = "pi^4" /\ ~inp.is_first
    /\ out = " - 3pi^4"

ChildCoef(p, i) == << p.c6, p.c5, p.c4, p.c3, p.c2 >>[i]

\* The parent's coefficient for the i-th power, a missing one (c6) being 0.
ParentCoef(parent, i) == << 0, parent.c5, parent.c4, parent.c3, parent.c2 >>[i]

\* The fragments of the powers from the i-th on whose difference is not 0,
\* in descending power order, with nothing between them.
RECURSIVE C2_Fragments(_, _, _, _)
C2_Fragments(p, parent, i, emitted) ==
    IF i > Len(PowerLabels) THEN ""
    ELSE LET d == ChildCoef(p, i) - ParentCoef(parent, i) IN
         IF d = 0 THEN C2_Fragments(p, parent, i + 1, emitted)
         ELSE format_coeff(d, PowerLabels[i], ~emitted)
                  \o C2_Fragments(p, parent, i + 1, TRUE)

\* C2: format_diff returns the concatenation, in descending power order, of
\* one fragment for exactly the powers whose difference (child minus parent,
\* a missing coefficient counting as 0) is not 0, with no separator added.
C2_FormatDiff ==
    Done("format_diff") => out = C2_Fragments(inp.p, inp.parent, 1, FALSE)

C2_Witness ==
    /\ Done("format_diff")
    /\ inp.p.c6 = 0
    /\ inp.p.c5 - inp.parent.c5 = Whole(2)
    /\ inp.p.c4 = inp.parent.c4
    /\ inp.p.c3 - inp.parent.c3 = Whole(-1)
    /\ inp.p.c2 = inp.parent.c2
    /\ out = "2pi^5 - pi^3"

OwnCoefs(p) == [ c5 |-> p.c5, c4 |-> p.c4, c3 |-> p.c3, c2 |-> p.c2 ]

\* C3: formatting a node's diff with the node's own coefficients as the
\* parent coefficients yields the empty string, for every power the node
\* carries, pi^6 through pi^2.
C3_SelfDiffEmpty ==
    (Done("format_diff") /\ inp.parent = OwnCoefs(inp.p)) => out = ""

(***************************************************************************)
(* Diff chains: the per-power terms format_diff works with for a node N    *)
(* against its parent P and its grandparent G, and for P against G.  N and *)
(* P are particles (they carry c6); a diff is taken against the c5 .. c2   *)
(* of the other node, the only coefficients format_diff accepts.           *)
(***************************************************************************)
ChainCoefs ==
    [ c6 : WholeFromZero(MaxChain), c5 : WholeFromZero(MaxChain),
      c4 : WholeFromZero(MaxChain), c3 : WholeFromZero(MaxChain),
      c2 : WholeFromZero(MaxChain) ]

ChainInputs ==
    [ op : {"chain"}, N : ChainCoefs, P : ChainCoefs,
      G : { OwnCoefs(g) : g \in ChainCoefs } ]

InitChain ==
    /\ pc = "ready"
    /\ inp \in ChainInputs
    /\ out = NoneVal

DiffChain ==
    /\ pc = "ready"
    /\ inp.op = "chain"
    /\ out' = [ N_G |-> DiffTerms(inp.N, inp.G.c5, inp.G.c4, inp.G.c3, inp.G.c2),
                N_P |-> DiffTerms(inp.N, inp.P.c5, inp.P.c4, inp.P.c3, inp.P.c2),
                P_G |-> DiffTerms(inp.P, inp.G.c5, inp.G.c4, inp.G.c3, inp.G.c2),
                text |-> format_diff(inp.N, inp.G.c5, inp.G.c4, inp.G.c3, inp.G.c2) ]
    /\ pc' = "done"
    /\ UNCHANGED inp

NextChain == DiffChain

SpecChain == InitChain /\ [][NextChain]_vars

\* C4: for a node N with parent P and grandparent G and for every power
\* pi^6 through pi^2, the term of diff(N relative to G) equals the term of
\* diff(N relative to P) plus the term of diff(P relative to G).
C4_DiffAdditive ==
    Done("chain")
        => \A i \in 1..Len(PowerLabels) : out.N_G[i] = out.N_P[i] + out.P_G[i]

SigmaZeroCoefs ==
    [ c6 |-> 0, c5 |-> Whole(7), c4 |-> 0, c3 |-> Whole(6), c2 |-> Whole(1) ]

SigmaBaseCoefs == [ c5 |-> Whole(7), c4 |-> 0, c3 |-> Whole(6), c2 |-> 0 ]

IsSigmaZeroDiff ==
    Done("format_diff") /\ inp.p = SigmaZeroCoefs /\ inp.parent = SigmaBaseCoefs

IsSigmaZeroNode == Done("node") /\ inp.node.key = "Sigma_zero"

\* C5 as stated: coefficients {5:7, 3:6, 2:1} (the Sigma0 entry) against
\* parent {5:7, 3:6} yield " + pi^2", the not-first-term form.
C5_SigmaZeroNotFirst ==
    /\ IsSigmaZeroDiff => out = " + pi^2"
    /\ IsSigmaZeroNode => out.poly = " + pi^2"

\* C5 as amended: coefficients {5:7, 3:6, 2:1} (the Sigma0 entry) against
\* parent {5:7, 3:6} yield "pi^2": the pi^2 term is the only term emitted,
\* hence the first, and is rendered without a leading sign.
C5_SigmaZeroFirst ==
    /\ IsSigmaZeroDiff => out = "pi^2"
    /\ IsSigmaZeroNode => (Coefs(inp.p) = SigmaZeroCoefs /\ out.poly = "pi^2")

C5_Witness == IsSigmaZeroDiff /\ out = "pi^2"

NodeParent(node) ==
    [ c5 |-> node.parent_c5, c4 |-> node.parent_c4,
      c3 |-> node.parent_c3, c2 |-> node.parent_c2 ]

\* C6: a node whose coefficients equal its parent's on every power and that
\* has no correction display renders as the empty string; the proton under
\* the light root has an empty polynomial diff and an empty sublabel.
C6_EmptyDiff ==
    /\ ( /\ Done("node")
         /\ inp.p.c6 = 0 /\ OwnCoefs(inp.p) = NodeParent(inp.node)
         /\ out.correction = NoneVal )
          => ( /\ out.poly = "" /\ out.diff = ""
               /\ inp.node.style # "base" => out.sublabel = "" )
    /\ (Done("node") /\ inp.node.key = "proton")
          => ( /\ inp.node.source = "root6"
               /\ out.poly = "" /\ out.sublabel = "" )

C6_Witness ==
    /\ Done("node") /\ inp.node.key = "Sigma_c_pp"
    /\ OwnCoefs(inp.p) = NodeParent(inp.node)
    /\ out.correction = NoneVal /\ out.sublabel = ""

C7_Expected(poly, corr) ==
    IF poly = "" THEN corr
    ELSE IF StartsWith(corr, "-") THEN poly \o " - " \o Drop(corr, 1)
    ELSE IF StartsWith(corr, "+") THEN poly \o " + " \o Drop(corr, 1)
    ELSE poly \o " + " \o corr

HasCorrectionDisplay ==
    Done("node") /\ inp.node.with_corr /\ out.correction # NoneVal

\* C7 as stated: a node with a correction display shows the polynomial diff
\* followed by " + " or " - " and the correction, or the correction with its
\* own sign when the polynomial diff is empty.
C7_CorrectionAppended ==
    HasCorrectionDisplay => out.diff = C7_Expected(out.poly, out.correction)

\* C7 as amended: a node with a correction display shows the polynomial diff
\* alone, empty or not: format_correction returns the empty string, and the
\* correction display is kept only in the node's 'correction' field.
C7_CorrectionNotShown ==
    HasCorrectionDisplay
        => ( /\ out.diff = out.poly
             /\ out.sublabel = IF out.poly # "" THEN out.poly
                               ELSE IF inp.node.style = "base" THEN "(base)"
                               ELSE "" )

C7_Witness ==
    /\ IsSigmaZeroNode
    /\ out.correction = "-4" /\ out.poly = "pi^2" /\ out.diff = "pi^2"

(***************************************************************************)
(* Real numbers.  The masses are real linear combinations of the powers of *)
(* pi, of the value a correction function returns, and of the measured     *)
(* mass, possibly multiplied by the electron mass.  A number is a function *)
(* from Terms to fixed-point coefficients: x[<<u, m>>] is the coefficient  *)
(* of unit u times m (m = 1: not multiplied).  Arithmetic is exact; the    *)
(* rounding of Python floats is not modelled.                              *)
(***************************************************************************)
\* Electron mass in MeV, in units of 10^-8 MeV (data/common.py).
M_E == 51099895

\* Electron mass in MeV, in units of 10^-8 MeV (data/mesons.py).
mesons_M_E == 51099895

Units == { "pi6", "pi5", "pi4", "pi3", "pi2", "pi", "one", "corr", "exp" }

Scales == { 1, M_E, mesons_M_E }

Terms == Units \X Scales

Zero == [ t \in Terms |-> 0 ]

Unit(u) == [ t \in Terms |-> IF t = <<u, 1>> THEN Den ELSE 0 ]

PI == Unit("pi")

PI2 == Unit("pi2")

PI3 == Unit("pi3")

PI4 == Unit("pi4")

PI5 == Unit("pi5")

PI6 == Unit("pi6")

Plus(x, y) == [ t \in Terms |-> x[t] + y[t] ]

Minus(x, y) == [ t \in Terms |-> x[t] - y[t] ]

\* c * x for a coefficient or literal c.
Times(c, x) ==
    [ t \in Terms |-> IF IsWhole(c) THEN (c \div Den) * x[t]
                      ELSE (c * x[t]) \div Den ]

\* x * m for the electron mass m and a number x not yet multiplied by it.
TimesScale(x, m) ==
    [ t \in Terms |-> IF t[2] = m THEN x[<<t[1], 1>>] ELSE 0 ]

\* n / d as a coefficient.
Frac(n, d) == (n * Den) \div d

(***************************************************************************)
(* data/baryons.py: the methods of Particle.  The value correction_func()  *)
(* returns is the unit "corr", the field mass_exp the unit "exp".          *)
(***************************************************************************)
mass_base(p) ==
    Plus(Plus(Plus(Plus(Times(p.c6, PI6), Times(p.c5, PI5)),
                   Times(p.c4, PI4)), Times(p.c3, PI3)), Times(p.c2, PI2))

correction(p) == IF p.has_correction_func THEN Unit("corr") ELSE Zero

\* mass_me without the correction.
mass_me_base_only(p) == mass_base(p)

mass_me(p) == Plus(mass_base(p), correction(p))

mass_mev(p) == TimesScale(mass_me(p), M_E)

mass_exp(p) == Unit("exp")

error_mev(p) == Minus(mass_mev(p), mass_exp(p))

\* error_kev with the factor of error_ev.
error_kev_as_ev(p) == Times(Whole(1000000), error_mev(p))

error_kev(p) == Times(Whole(1000), error_mev(p))

error_ev(p) == Times(Whole(1000000), error_mev(p))

(***************************************************************************)
(* data/mesons.py: Meson, its methods and its tables.                      *)
(***************************************************************************)
Meson(c5, c4, c3, c2, c1, c0, has_correction_func) ==
    [ c5 |-> c5, c4 |-> c4, c3 |-> c3, c2 |-> c2, c1 |-> c1, c0 |-> c0,
      has_correction_func |-> has_correction_func ]

Meson_mass_base(m) ==
    Plus(Plus(Plus(Plus(Plus(Times(m.c5, PI5), Times(m.c4, PI4)),
                        Times(m.c3, PI3)), Times(m.c2, PI2)),
              Times(m.c1, PI)), Times(m.c0, Unit("one")))

Meson_correction(m) == IF m.has_correction_func THEN Unit("corr") ELSE Zero

Meson_mass_me(m) == Plus(Meson_mass_base(m), Meson_correction(m))

Meson_mass_mev(m) == TimesScale(Meson_mass_me(m), mesons_M_E)

Meson_error_mev(m) == Minus(Meson_mass_mev(m), Unit("exp"))

Meson_error_kev(m) == Times(Whole(1000), Meson_error_mev(m))

MESONS ==
    "pi_pm" :> Meson(Whole(1), 0, Whole(-1), 0, Whole(-1), Whole(1), TRUE) @@
    "pi_0" :> Meson(Whole(1), 0, Whole(-1), Whole(-1), 0, Whole(-1), FALSE) @@
    "rho" :> Meson(Whole(5), 0, 0, Whole(-1), Frac(-6, 5), Frac(2, 5), FALSE) @@
    "omega" :> Meson(Whole(5), 0, 0, 0, Frac(3, 5), Frac(-2, 5), FALSE) @@
    "K_pm" :> Meson(Whole(3), 0, Whole(1), Whole(2), Frac(-4, 5), 0, FALSE) @@
    "K_0" :> Meson(Whole(3), 0, Whole(2), 0, Whole(-2), 0, FALSE) @@
    "eta" :> Meson(Whole(3), Whole(1), Whole(2), 0, Whole(-2), Whole(1), FALSE) @@
    "eta_prime" :> Meson(Whole(6), 0, Whole(1), 0, Whole(2), Whole(1), FALSE) @@
    "phi" :> Meson(Whole(6), Whole(2), Whole(-1), 0, Frac(-7, 5), Frac(-2, 5), FALSE) @@
    "D_pm" :> Meson(Whole(12), 0, 0, Whole(-2), Whole(2), 0, FALSE) @@
    "D_0" :> Meson(Whole(12), 0, 0, Whole(-2), Whole(-1), 0, FALSE) @@
    "D_s" :> Meson(Whole(13), Whole(-1), Whole(-1), 0, Frac(4, 5), Frac(-2, 5), FALSE) @@
    "J_psi" :> Meson(Whole(20), 0, Whole(-2), 0, Frac(4, 5), Frac(-2, 5), FALSE) @@
    "B_pm" :> Meson(Whole(34), 0, Whole(-2), 0, Whole(-3), Frac(-9, 5), FALSE) @@
    "B_0" :> Meson(Whole(34), 0, Whole(-2), 0, Whole(-3), Frac(-6, 5), FALSE) @@
    "B_s" :> Meson(Whole(34), Whole(1), 0, 0, Frac(4, 5), Frac(-9, 5), FALSE) @@
    "Upsilon" :> Meson(Whole(61), Whole(-1), Whole(-2), 0, Frac(6, 5), Frac(9, 5), FALSE)

LEPTONS ==
    "muon" :> Meson(Whole(1), Whole(-1), 0, 0, 0, Whole(-1), TRUE)

(***************************************************************************)
(* generate_baryon_tree.py: UNCERTAINTIES and compute_mass_data.  A float  *)
(* literal is kept as Decimal(m, e), standing for m * 10^e.                *)
(***************************************************************************)
Decimal(m, e) == << m, e >>

UNCERTAINTIES ==
    "proton" :> Decimal(29, -11) @@
    "neutron" :> Decimal(54, -11) @@
    "Lambda" :> Decimal(6, -3) @@
    "Sigma_plus" :> Decimal(3, -2) @@
    "Sigma_zero" :> Decimal(3, -2) @@
    "Sigma_minus" :> Decimal(4, -2) @@
    "Sigma_star_plus" :> Decimal(9, -1) @@
    "Sigma_star_zero" :> Decimal(9, -1) @@
    "Sigma_star_minus" :> Decimal(9, -1) @@
    "Xi_zero" :> Decimal(8, -2) @@
    "Xi_minus" :> Decimal(6, -2) @@
    "Xi_star_zero" :> Decimal(8, -1) @@
    "Xi_star_minus" :> Decimal(9, -1) @@
    "Omega" :> Decimal(21, -2) @@
    "Delta" :> Decimal(2, 0) @@
    "Lambda_c" :> Decimal(14, -2) @@
    "Sigma_c_pp" :> Decimal(14, -2) @@
    "Sigma_c_plus" :> Decimal(4, -1) @@
    "Sigma_c_zero" :> Decimal(14, -2) @@
    "Sigma_c_star_pp" :> Decimal(4, -1) @@
    "Sigma_c_star_plus" :> Decimal(5, -1) @@
    "Sigma_c_star_zero" :> Decimal(4, -1) @@
    "Xi_c_plus" :> Decimal(31, -2) @@
    "Xi_c_zero" :> Decimal(28, -2) @@
    "Xi_c_star_plus" :> Decimal(5, -1) @@
    "Xi_c_star_zero" :> Decimal(5, -1) @@
    "Omega_c" :> Decimal(21, -2) @@
    "Omega_c_star" :> Decimal(5, -1) @@
    "Xi_cc_pp" :> Decimal(4, -1) @@
    "Lambda_b" :> Decimal(6, -2) @@
    "Sigma_b_plus" :> Decimal(5, -1) @@
    "Sigma_b_minus" :> Decimal(5, -1) @@
    "Xi_b_zero" :> Decimal(4, -1) @@
    "Xi_b_minus" :> Decimal(4, -1) @@
    "Omega_b" :> Decimal(22, -2)


\* UncertaintyOf without the table: every key gets the default.
UncertaintyOf_default_only(unc_key) == Decimal(1, 0)

\* UNCERTAINTIES.get(unc_key, 1.0)
UncertaintyOf(unc_key) ==
    IF unc_key \in DOMAIN UNCERTAINTIES THEN UNCERTAINTIES[unc_key]
    ELSE Decimal(1, 0)

compute_mass_data(p, unc_key) ==
    LET calc_mev  == mass_mev(p)
        base_mev  == TimesScale(mass_base(p), M_E)
        corr_mev  == IF p.has_correction_func
                     THEN TimesScale(correction(p), M_E) ELSE Zero
        exp_mev   == mass_exp(p)
        err_mev   == Minus(calc_mev, exp_mev)
        err_kev   == Times(Whole(1000), err_mev)
        unc       == UncertaintyOf(unc_key)
        sigma     == IF unc[1] > 0
                     THEN [ abs_of |-> err_mev, over |-> unc ]
                     ELSE [ abs_of |-> Zero, over |-> Decimal(1, 0) ]
    IN  [ calc_mev |-> calc_mev, base_mev |-> base_mev, corr_mev |-> corr_mev,
          error_kev |-> err_kev, sigma |-> sigma, uncertainty |-> unc ]

(***************************************************************************)
(* Mass evaluation: a particle or meson is drawn, then its methods or      *)
(* compute_mass_data are applied to it.                                    *)
(***************************************************************************)
SynthParticles ==
    { [ node_id |-> "x", c6 |-> c.c6, c5 |-> c.c5, c4 |-> c.c4, c3 |-> c.c3,
        c2 |-> c.c2, has_correction_func |-> f, correction_latex |-> "" ] :
      c \in SynthCoefs, f \in BOOLEAN }

SynthMesons ==
    { Meson(c5, 0, c3, c2, c1, c0, f) :
      c5 \in WholeFromZero(MaxCoef), c3 \in WholeUpTo(MaxCoef),
      c2 \in WholeUpTo(MaxCoef), c1 \in { Frac(-6, 5), 0, Whole(1) },
      c0 \in { Frac(2, 5), 0, Whole(-1) }, f \in BOOLEAN }

MassInputs ==
    [ op : {"Particle"}, p : Range(ALL_PARTICLES) \cup SynthParticles ]
    \cup [ op : {"Meson"}, m : Range(MESONS) \cup Range(LEPTONS) \cup SynthMesons ]
    \cup { [ op |-> "compute_mass_data", p |-> ALL_PARTICLES[k], unc_key |-> k ] :
           k \in DOMAIN ALL_PARTICLES }
    \cup [ op : {"compute_mass_data"}, p : SynthParticles, unc_key : {"x"} ]

InitMass ==
    /\ pc = "ready"
    /\ inp \in MassInputs
    /\ out = NoneVal

EvalParticle ==
    /\ pc = "ready"
    /\ inp.op = "Particle"
    /\ out' = [ mass_base |-> mass_base(inp.p), correction |-> correction(inp.p),
                mass_me |-> mass_me(inp.p), mass_mev |-> mass_mev(inp.p),
                error_mev |-> error_mev(inp.p), error_kev |-> error_kev(inp.p),
                error_ev |-> error_ev(inp.p) ]
    /\ pc' = "done"
    /\ UNCHANGED inp

EvalMeson ==
    /\ pc = "ready"
    /\ inp.op = "Meson"
    /\ out' = [ mass_base |-> Meson_mass_base(inp.m),
                correction |-> Meson_correction(inp.m),
                mass_me |-> Meson_mass_me(inp.m),
                mass_mev |-> Meson_mass_mev(inp.m),
                error_mev |-> Meson_error_mev(inp.m),
                error_kev |-> Meson_error_kev(inp.m) ]
    /\ pc' = "done"
    /\ UNCHANGED inp

ComputeMassData ==
    /\ pc = "ready"
    /\ inp.op = "compute_mass_data"
    /\ out' = compute_mass_data(inp.p, inp.unc_key)
    /\ pc' = "done"
    /\ UNCHANGED inp

NextMass == EvalParticle \/ EvalMeson \/ ComputeMassData

SpecMass == InitMass /\ [][NextMass]_vars

(***************************************************************************)
(* Claims about mass and error evaluation.                                 *)
(***************************************************************************)
BaryonPowers ==
    << <<"c6", "pi6">>, <<"c5", "pi5">>, <<"c4", "pi4">>, <<"c3", "pi3">>,
       <<"c2", "pi2">> >>

MesonPowers ==
    << <<"c5", "pi5">>, <<"c4", "pi4">>, <<"c3", "pi3">>, <<"c2", "pi2">>,
       <<"c1", "pi">>, <<"c0", "one">> >>

\* The sum over the listed powers of coefficient x pi^power: the number
\* whose coefficient on each power's unit is the particle's coefficient.
PolySum(p, powers) ==
    [ t \in Terms |->
        IF \E i \in 1..Len(powers) : t = <<powers[i][2], 1>>
        THEN p[powers[CHOOSE i \in 1..Len(powers) : t = <<powers[i][2], 1>>][1]]
        ELSE 0 ]

\* The correction: what the correction function returns, 0 without one.
CorrectionOrZero(p) ==
    [ t \in Terms |-> IF t = <<"corr", 1>> /\ p.has_correction_func
                      THEN Den ELSE 0 ]

\* x times the electron mass 0.51099895 MeV.
InMeV(x) == [ t \in Terms |-> IF t[2] = 51099895 THEN x[<<t[1], 1>>] ELSE 0 ]

\* C8: mass_me() is the sum over the polynomial coefficients of coefficient
\* x pi^power plus the correction (0 without a correction function),
\* mass_mev() is mass_me() x M_E with M_E = 0.51099895, and the calc_mev of
\* compute_mass_data is base_mev + corr_mev.
C8_MassFormula ==
    /\ Done("Particle")
          => /\ out.mass_me = Plus(PolySum(inp.p, BaryonPowers), CorrectionOrZero(inp.p))
             /\ out.mass_mev = InMeV(out.mass_me)
    /\ Done("Meson")
          => /\ out.mass_me = Plus(PolySum(inp.m, MesonPowers), CorrectionOrZero(inp.m))
             /\ out.mass_mev = InMeV(out.mass_me)
    /\ Done("compute_mass_data")
          => /\ out.calc_mev = Plus(out.base_mev, out.corr_mev)
             /\ out.calc_mev = InMeV(Plus(PolySum(inp.p, BaryonPowers),
                                          CorrectionOrZero(inp.p)))

C8_Witness ==
    /\ Done("compute_mass_data")
    /\ inp.unc_key = "Sigma_zero"
    /\ out.base_mev[<<"pi5", M_E>>] = Whole(7)
    /\ out.base_mev[<<"pi2", M_E>>] = Whole(1)
    /\ out.corr_mev[<<"corr", M_E>>] = Whole(1)
    /\ out.calc_mev[<<"pi3", M_E>>] = Whole(6)
    /\ out.calc_mev[<<"corr", M_E>>] = Whole(1)

\* C9: error_mev() = mass_mev() - mass_exp, error_kev() = error_mev() x 1000
\* and error_ev() = error_mev() x 1e6 (a meson has no error_ev), and the
\* error_kev of compute_mass_data equals the particle's error_kev().
C9_ErrorConsistency ==
    /\ Done("Particle")
          => /\ out.error_mev = Minus(out.mass_mev, Unit("exp"))
             /\ \A t \in Terms : out.error_kev[t] = 1000 * out.error_mev[t]
             /\ \A t \in Terms : out.error_ev[t] = 1000000 * out.error_mev[t]
    /\ Done("Meson")
          => /\ out.error_mev = Minus(out.mass_mev, Unit("exp"))
             /\ \A t \in Terms : out.error_kev[t] = 1000 * out.error_mev[t]
    /\ Done("compute_mass_data")
          => out.error_kev = error_kev(inp.p)

C9_Witness ==
    /\ Done("Particle")
    /\ inp.p.node_id = "Om"
    /\ out.error_mev[<<"exp", 1>>] = Whole(-1)
    /\ out.error_kev[<<"exp", 1>>] = Whole(-1000)
    /\ out.error_kev[<<"pi5", M_E>>] = Whole(9000)
    /\ out.error_ev[<<"pi5", M_E>>] = Whole(9000000)

(***************************************************************************)
(* data/cycle.py: the helper functions, and a walk that follows the parent *)
(* links of a declared tree from a node, looking each parent up with       *)
(* get_node.                                                               *)
(***************************************************************************)
NodeIds(cycle) == { cycle.nodes[i].id : i \in 1..Len(cycle.nodes) }

\* node_id in cycle['nodes']
HasNode(cycle, node_id) == node_id \in NodeIds(cycle)

\* cycle['nodes'].get(node_id), for a node_id that is a key
get_node(cycle, node_id) ==
    cycle.nodes[CHOOSE i \in 1..Len(cycle.nodes) : cycle.nodes[i].id = node_id]

get_particles_for_node(cycle, node_id) ==
    IF HasNode(cycle, node_id) THEN get_node(cycle, node_id).particles ELSE <<>>

IsChildOf(node_id, node) == node.parent = node_id

\* get_children returning the children last declared first.
get_children_reversed(cycle, node_id) ==
    LET children == SelectSeq(cycle.nodes, LAMBDA node : IsChildOf(node_id, node))
    IN  [ i \in 1..Len(children) |-> children[Len(children) + 1 - i].id ]

\* The ids of the nodes whose parent is node_id, in declaration order.
get_children(cycle, node_id) ==
    LET children == SelectSeq(cycle.nodes, LAMBDA node : IsChildOf(node_id, node))
    IN  [ i \in 1..Len(children) |-> children[i].id ]

\* An id that no tree declares.
Undeclared == "nowhere"

WalkInputs ==
    { [ op |-> "walk", cycle |-> c, node_id |-> n ] :
      c \in 1..Len(AllCycles), n \in UNION { NodeIds(AllCycles[i]) : i \in 1..Len(AllCycles) } }
    \cup [ op : {"get_particles_for_node", "get_children"},
           cycle : 1..Len(AllCycles),
           node_id : UNION { NodeIds(AllCycles[i]) : i \in 1..Len(AllCycles) }
                     \cup {Undeclared} ]

InitWalk ==
    /\ pc = "ready"
    /\ inp \in WalkInputs
    /\ out = NoneVal

\* The walk starts at node_id if the tree declares it.
StartWalk ==
    /\ pc = "ready"
    /\ inp.op = "walk"
    /\ IF HasNode(AllCycles[inp.cycle], inp.node_id)
       THEN /\ out' = [ at |-> inp.node_id, visited |-> <<inp.node_id>>,
                        status |-> "walking" ]
            /\ pc' = "walking"
       ELSE /\ out' = [ at |-> inp.node_id, visited |-> <<>>,
                        status |-> "undeclared" ]
            /\ pc' = "done"
    /\ UNCHANGED inp

\* One step from the current node to its parent.
FollowParent ==
    /\ pc = "walking"
    /\ LET cycle  == AllCycles[inp.cycle]
           parent == get_node(cycle, out.at).parent
       IN  IF parent = NoneVal
           THEN /\ out' = [ out EXCEPT !.status = "root" ]
                /\ pc' = "done"
           ELSE IF ~HasNode(cycle, parent)
           THEN /\ out' = [ out EXCEPT !.status = "unresolved" ]
                /\ pc' = "done"
           ELSE IF parent \in Range(out.visited)
           THEN /\ out' = [ out EXCEPT !.status = "cycle" ]
                /\ pc' = "done"
           ELSE /\ out' = [ out EXCEPT !.at = parent,
                                       !.visited = Append(@, parent) ]
                /\ pc' = "walking"
    /\ UNCHANGED inp

GetParticlesForNode ==
    /\ pc = "ready"
    /\ inp.op = "get_particles_for_node"
    /\ out' = get_particles_for_node(AllCycles[inp.cycle], inp.node_id)
    /\ pc' = "done"
    /\ UNCHANGED inp

GetChildren ==
    /\ pc = "ready"
    /\ inp.op = "get_children"
    /\ out' = get_children(AllCycles[inp.cycle], inp.node_id)
    /\ pc' = "done"
    /\ UNCHANGED inp

NextWalk == StartWalk \/ FollowParent \/ GetParticlesForNode \/ GetChildren

SpecWalk == InitWalk /\ [][NextWalk]_vars

Walked == inp.op = "walk" /\ pc \in { "walking", "done" } /\ out.status # "undeclared"

\* C10: in each declared tree (light, charm, bottom) every non-root node's
\* parent is a node declared in the same tree, following parent links from
\* any node reaches the tree's declared root without revisiting a node, and
\* every particle id a node lists is a key of the particle table.
C10_TreeIntegrity ==
    /\ Walked
          => /\ out.status \notin { "unresolved", "cycle" }
             /\ \A i \in 1..Len(out.visited) :
                   /\ HasNode(AllCycles[inp.cycle], out.visited[i])
                   /\ \A j \in 1..Len(out.visited) :
                         out.visited[i] = out.visited[j] => i = j
             /\ out.status = "root" => out.at = AllCycles[inp.cycle].root
             /\ (out.status = "walking" /\ out.at # AllCycles[inp.cycle].root)
                   => HasNode(AllCycles[inp.cycle],
                              get_node(AllCycles[inp.cycle], out.at).parent)
    /\ Done("get_particles_for_node")
          => \A i \in 1..Len(out) : out[i] \in DOMAIN ALL_PARTICLES

C10_Witness ==
    /\ Done("walk")
    /\ AllCycles[inp.cycle] = LIGHT_CYCLE
    /\ out.visited = << "vOm6pi4", "v9", "v8", "v7", "root6" >>
    /\ out.status = "root"
    /\ \A i \in 1..Len(LIGHT_CYCLE.nodes) :
          \A j \in 1..Len(LIGHT_CYCLE.nodes[i].particles) :
              LIGHT_CYCLE.nodes[i].particles[j] \in DOMAIN ALL_PARTICLES

(***************************************************************************)
(* data/cycle.py: loading a tree declaration.  A declaration is a dict     *)
(* literal: evaluating it performs no lookup of the parent ids, so loading *)
(* always succeeds.  After loading, the tree is descended from its root    *)
(* with get_children, the only child lookup the module offers.             *)
(***************************************************************************)
\* Number of non-root nodes of a synthetic declaration is fixed at three;
\* their parents range over the declared ids and one undeclared id.
SynthParentIds == { "r", "a", "b", "c", Undeclared }

SynthCycle(pa, pb, pcc) ==
    [ root  |-> "r",
      nodes |-> << CycleNode("r", NoneVal, "c5" :> 1, <<>>),
                   CycleNode("a", pa, "c5" :> 1, <<>>),
                   CycleNode("b", pb, "c5" :> 1, <<>>),
                   CycleNode("c", pcc, "c5" :> 1, <<>>) >>,
      edges |-> <<>> ]

SynthCycles ==
    { SynthCycle(pa, pb, pcc) :
      pa \in SynthParentIds, pb \in SynthParentIds, pcc \in SynthParentIds }

DeclInputs ==
    [ op : {"load"}, decl : SynthCycles \cup Range(AllCycles) ]

InitDecl ==
    /\ pc = "ready"
    /\ inp \in DeclInputs
    /\ out = NoneVal

\* The module-level assignment LIGHT_CYCLE = {...}: nothing is validated.
LoadDeclaration ==
    /\ pc = "ready"
    /\ inp.op = "load"
    /\ out' = [ status |-> "loaded", todo |-> << inp.decl.root >>, reached |-> <<>> ]
    /\ pc' = "descending"
    /\ UNCHANGED inp

\* One step of the descent: the next node is reached and its children, as
\* get_children returns them, are queued.
DescendChildren ==
    /\ pc = "descending"
    /\ out.todo # <<>>
    /\ LET node_id  == Head(out.todo)
           children == SelectSeq(get_children(inp.decl, node_id),
                                 LAMBDA c : c \notin Range(out.reached)
                                            /\ c \notin Range(out.todo))
       IN  out' = [ out EXCEPT !.todo = Tail(@) \o children,
                               !.reached = Append(@, node_id) ]
    /\ UNCHANGED << pc, inp >>

DescentDone ==
    /\ pc = "descending"
    /\ out.todo = <<>>
    /\ pc' = "done"
    /\ UNCHANGED << inp, out >>

NextDecl == LoadDeclaration \/ DescendChildren \/ DescentDone

SpecDecl == InitDecl /\ [][NextDecl]_vars

\* The nodes of a declaration whose parent is not a declared id.
UnresolvedNodes(cycle) ==
    { n \in Range(cycle.nodes) : n.parent # NoneVal /\ ~HasNode(cycle, n.parent) }

\* C11: if a tree declaration contains a node whose parent id is not the id
\* of any declared node, construction fails immediately with an error, and
\* the node is never silently dropped from child lookup or from the tree.
C11_UnresolvedParentFails ==
    (inp.op = "load" /\ pc # "ready" /\ UnresolvedNodes(inp.decl) # {})
        => /\ out.status = "error"
           /\ out.reached = <<>>

(***************************************************************************)
(* generate_baryon_tree.py: NODE_ID_TO_KEY and enrich_nodes_with_mass_data.*)
(* The loop over the nodes is one step per node; data[i] is what the loop  *)
(* has attached to the i-th node so far (enriched = FALSE: nothing).       *)
(***************************************************************************)
\* {p.node_id: key for key, p in ALL_PARTICLES.items()}: the node ids of
\* the tables are pairwise distinct.
NODE_ID_TO_KEY ==
    [ id \in { ALL_PARTICLES[k].node_id : k \in DOMAIN ALL_PARTICLES } |->
        CHOOSE k \in DOMAIN ALL_PARTICLES : ALL_PARTICLES[k].node_id = id ]

\* The loop body for one node.
EnrichedData(node) ==
    IF node.type = "virtual" THEN [ enriched |-> FALSE ]
    ELSE IF node.id \in DOMAIN NODE_ID_TO_KEY
            /\ NODE_ID_TO_KEY[node.id] \in DOMAIN ALL_PARTICLES
    THEN [ enriched |-> TRUE ]
         @@ compute_mass_data(ALL_PARTICLES[NODE_ID_TO_KEY[node.id]],
                              NODE_ID_TO_KEY[node.id])
    ELSE [ enriched |-> FALSE ]

\* The id and type of the nodes a generate_*_baryon_data function returns.
GeneratedNodes(tree) ==
    [ i \in 1..Len(tree) |-> [ id |-> tree[i].id, type |-> tree[i].type ] ]

\* Nodes a list may hold: a virtual node, particle nodes of the tables (the
\* last one has no entry in UNCERTAINTIES) and a node no table knows.
NodePool ==
    { [ id |-> "root6", type |-> "virtual" ],
      [ id |-> "p", type |-> "particle" ],
      [ id |-> "Ss_zero", type |-> "spin32" ],
      [ id |-> "Sbs_plus", type |-> "spin32" ],
      [ id |-> Undeclared, type |-> "particle" ] }

SeqsUpTo(S, n) == UNION { [ 1..k -> S ] : k \in 0..n }


EnrichStart ==
    /\ pc = "ready"
    /\ inp.op = "enrich"
    /\ out' = [ status |-> "running", data |-> <<>> ]
    /\ pc' = "enriching"
    /\ UNCHANGED inp

EnrichNode ==
    /\ pc = "enriching"
    /\ Len(out.data) < Len(inp.nodes)
    /\ out' = [ out EXCEPT
                  !.data = Append(@, EnrichedData(inp.nodes[Len(out.data) + 1])) ]
    /\ UNCHANGED << pc, inp >>

EnrichReturn ==
    /\ pc = "enriching"
    /\ Len(out.data) = Len(inp.nodes)
    /\ out' = [ out EXCEPT !.status = "returned" ]
    /\ pc' = "done"
    /\ UNCHANGED inp

(***************************************************************************)
(* data/magnetic.py: MagneticMoment and MAGNETIC_MOMENTS (in declaration   *)
(* order); generate_baryon_tree.py: MAG_KEY_TO_PARTICLE and                *)
(* generate_magnetic_moments_js, one step per entry of the table.  A float *)
(* literal too long for Decimal is kept as its sign and its digits.  A     *)
(* moment's value is kept as numerator * pi^pi / denominator.              *)
(***************************************************************************)
MagneticMoment(key, negative, mu_exp, numerator, pi_power, denominator) ==
    [ key |-> key, mu_exp |-> [ negative |-> negative, digits |-> mu_exp ],
      numerator |-> numerator, pi_power |-> pi_power, denominator |-> denominator ]

MAGNETIC_MOMENTS ==
    << MagneticMoment("p",      FALSE, "2.7928473508", 8, -1, 9),
       MagneticMoment("Sigma+", FALSE, "2.458", 7, -1, 9),
       MagneticMoment("n",      TRUE,  "1.9130427", -6, 1, 1),
       MagneticMoment("Lambda", TRUE,  "0.613", -6, 2, 1),
       MagneticMoment("Xi0",    TRUE,  "1.250", -4, 1, 1),
       MagneticMoment("Sigma-", TRUE,  "1.160", -36, 3, 1),
       MagneticMoment("Xi-",    TRUE,  "0.6507", -20, 3, 1),
       MagneticMoment("Omega",  TRUE,  "2.02", -20, 2, 1) >>

mu_calc(mm) ==
    IF mm.pi_power < 0
    THEN [ numerator |-> mm.numerator, pi |-> -mm.pi_power,
           denominator |-> mm.denominator ]
    ELSE IF mm.pi_power = 0
    THEN [ numerator |-> mm.numerator, pi |-> 0, denominator |-> mm.denominator ]
    ELSE [ numerator |-> mm.numerator, pi |-> -mm.pi_power, denominator |-> 1 ]

MAG_KEY_TO_PARTICLE ==
    "p" :> "proton" @@ "n" :> "neutron" @@ "Lambda" :> "Lambda" @@
    "Sigma+" :> "Sigma_plus" @@ "Sigma-" :> "Sigma_minus" @@
    "Xi0" :> "Xi_zero" @@ "Xi-" :> "Xi_minus" @@ "Omega" :> "Omega"

\* The line the loop body appends for one entry (emitted = FALSE: the body
\* ended with `continue`).
MagneticMomentLine(mm) ==
    IF mm.key \notin DOMAIN MAG_KEY_TO_PARTICLE
       \/ MAG_KEY_TO_PARTICLE[mm.key] \notin DOMAIN ALL_PARTICLES
    THEN [ emitted |-> FALSE ]
    ELSE [ emitted |-> TRUE,
           node_id |-> ALL_PARTICLES[MAG_KEY_TO_PARTICLE[mm.key]].node_id,
           formula |->
               IF mm.pi_power < 0
               THEN IntStr(abs(mm.numerator)) \o "pi/" \o IntStr(mm.denominator)
               ELSE IF mm.pi_power = 1 THEN IntStr(abs(mm.numerator)) \o "/pi"
               ELSE IF mm.pi_power = 2 THEN IntStr(abs(mm.numerator)) \o "/pi^2"
               ELSE IF mm.pi_power = 3 THEN IntStr(abs(mm.numerator)) \o "/pi^3"
               ELSE IntStr(abs(mm.numerator)) \o "/pi^" \o IntStr(mm.pi_power),
           value |-> [ mu_calc(mm) EXCEPT !.numerator = abs(@) ],
           exp |-> mm.mu_exp.digits,
           sign |-> IF mm.mu_exp.negative THEN "-" ELSE "" ]

\* Entries a table may hold: two of the shipped ones, and one whose key
\* MAG_KEY_TO_PARTICLE does not list.
MomentPool ==
    { MAGNETIC_MOMENTS[1], MAGNETIC_MOMENTS[6],
      MagneticMoment("Sigma0", FALSE, "0.0", 1, 0, 2) }

EmitStart ==
    /\ pc = "ready"
    /\ inp.op = "magnetic"
    /\ out' = [ status |-> "running", seen |-> 0, lines |-> <<>> ]
    /\ pc' = "emitting"
    /\ UNCHANGED inp

EmitMoment ==
    /\ pc = "emitting"
    /\ out.seen < Len(inp.moments)
    /\ LET line == MagneticMomentLine(inp.moments[out.seen + 1])
       IN  out' = [ out EXCEPT !.seen = @ + 1,
                               !.lines = IF line.emitted THEN Append(@, line) ELSE @ ]
    /\ UNCHANGED << pc, inp >>

EmitReturn ==
    /\ pc = "emitting"
    /\ out.seen = Len(inp.moments)
    /\ out' = [ out EXCEPT !.status = "returned" ]
    /\ pc' = "done"
    /\ UNCHANGED inp

InitEnrich ==
    /\ pc = "ready"
    /\ inp \in [ op : {"enrich"},
                 nodes : { GeneratedNodes(Trees[t]) : t \in DOMAIN Trees }
                         \cup SeqsUpTo(NodePool, MaxNodes) ]
               \cup [ op : {"magnetic"},
                      moments : {MAGNETIC_MOMENTS}
                                \cup SeqsUpTo(MomentPool, MaxNodes) ]
    /\ out = NoneVal

NextEnrich ==
    \/ EnrichStart \/ EnrichNode \/ EnrichReturn
    \/ EmitStart \/ EmitMoment \/ EmitReturn

SpecEnrich == InitEnrich /\ [][NextEnrich]_vars

\* The nodes handled so far whose id is the node id of no particle.
UnknownNodes ==
    { i \in 1..Len(out.data) :
        /\ inp.nodes[i].type # "virtual"
        /\ inp.nodes[i].id \notin DOMAIN NODE_ID_TO_KEY }

\* The entries handled so far whose key leads to no particle.
UnknownMoments ==
    { i \in 1..out.seen :
        \/ inp.moments[i].key \notin DOMAIN MAG_KEY_TO_PARTICLE
        \/ MAG_KEY_TO_PARTICLE[inp.moments[i].key] \notin DOMAIN ALL_PARTICLES }

\* C12: if a particle tree node's id, or a magnetic-moment key, has no
\* particle-table entry, the build fails immediately, naming the id: neither
\* enrichment nor magnetic-moment emission goes on past such a node.
C12_UnknownIdFails ==
    /\ (inp.op = "enrich" /\ pc # "ready" /\ UnknownNodes # {})
          => out.status = "error"
    /\ (inp.op = "magnetic" /\ pc # "ready" /\ UnknownMoments # {})
          => out.status = "error"

\* C20: every particle node of the generated trees gets sigma = |error_mev|
\* / uncertainty, the uncertainty being the particle's entry in
\* UNCERTAINTIES, or 1.0 when it has none, and the uncertainty stored on
\* the node is the divisor.
C20_Sigma ==
    (inp.op = "enrich" /\ pc # "ready")
        => \A i \in 1..Len(out.data) :
              /\ ( /\ inp.nodes \in { GeneratedNodes(Trees[tr]) : tr \in DOMAIN Trees }
                   /\ inp.nodes[i].type # "virtual" )
                    => out.data[i].enriched
              /\ out.data[i].enriched
                    => LET key == NODE_ID_TO_KEY[inp.nodes[i].id]
                           p   == ALL_PARTICLES[key]
                       IN  /\ out.data[i].sigma.abs_of = Minus(mass_mev(p), Unit("exp"))
                           /\ out.data[i].sigma.over =
                                 IF key \in DOMAIN UNCERTAINTIES
                                 THEN UNCERTAINTIES[key] ELSE << 1, 0 >>
                           /\ out.data[i].uncertainty = out.data[i].sigma.over

C20_Witness ==
    /\ inp.op = "enrich" /\ pc = "done"
    /\ Len(inp.nodes) = 2
    /\ inp.nodes[1].id = "p" /\ inp.nodes[2].id = "Sbs_plus"
    /\ out.data[1].sigma.over = << 29, -11 >>
    /\ out.data[2].sigma.over = << 1, 0 >>
    /\ out.data[2].uncertainty = << 1, 0 >>

\* The position of a declared node in its tree's declaration.
DeclIndex(cycle, node_id) ==
    CHOOSE i \in 1..Len(cycle.nodes) : cycle.nodes[i].id = node_id

\* C13: get_children returns, for any tree and node id, exactly the nodes
\* (by id) whose parent is that id, each once, in declaration order, and the
\* empty sequence for an id without children or an unknown id.
C13_ChildrenInOrder ==
    Done("get_children")
        => LET cycle == AllCycles[inp.cycle] IN
           /\ \A i \in 1..Len(out) :
                 /\ HasNode(cycle, out[i])
                 /\ get_node(cycle, out[i]).parent = inp.node_id
           /\ \A k \in 1..Len(cycle.nodes) :
                 cycle.nodes[k].parent = inp.node_id
                     => Cardinality({ i \in 1..Len(out) : out[i] = cycle.nodes[k].id }) = 1
           /\ \A i \in 1..Len(out) : \A j \in 1..Len(out) :
                 i < j => DeclIndex(cycle, out[i]) < DeclIndex(cycle, out[j])
           /\ ( \/ ~HasNode(cycle, inp.node_id)
                \/ \A k \in 1..Len(cycle.nodes) : cycle.nodes[k].parent # inp.node_id )
                 => out = <<>>

C13_Witness ==
    /\ Done("get_children")
    /\ AllCycles[inp.cycle] = LIGHT_CYCLE
    /\ inp.node_id = "v7"
    /\ out = << "vS6pi3", "vSs6pi4", "v8" >>

\* node_id is id or an ancestor of id, following at most fuel parent links.
RECURSIVE IsUnder(_, _, _, _)
IsUnder(cycle, id, node_id, fuel) ==
    \/ id = node_id
    \/ /\ fuel > 0
       /\ HasNode(cycle, id)
       /\ get_node(cycle, id).parent # NoneVal
       /\ IsUnder(cycle, get_node(cycle, id).parent, node_id, fuel - 1)

\* The particles listed by node_id and by its descendants.
ParticlesUnder(cycle, node_id) ==
    UNION { Range(cycle.nodes[k].particles) :
            k \in { j \in 1..Len(cycle.nodes) :
                      IsUnder(cycle, cycle.nodes[j].id, node_id, Len(cycle.nodes)) } }

\* C14: the particle lookup for a node returns the particles located under
\* it: the node's own particles and those of all its descendants, and
\* nothing else.
C14_ParticlesUnder ==
    (Done("get_particles_for_node") /\ HasNode(AllCycles[inp.cycle], inp.node_id))
        => Range(out) = ParticlesUnder(AllCycles[inp.cycle], inp.node_id)

\* C15: every non-root node of every declared family tree has two or more
\* particles in its subtree, and all of them carry the coefficients the
\* node anchors.
C15_SharedAnchors ==
    LET cycle == AllCycles[inp.cycle] IN
    ( /\ Done("get_particles_for_node")
      /\ HasNode(cycle, inp.node_id)
      /\ inp.node_id # cycle.root )
        => LET node  == get_node(cycle, inp.node_id)
               under == ParticlesUnder(cycle, inp.node_id)
           IN  /\ Cardinality(under) >= 2
               /\ \A key \in under : \A k \in DOMAIN node.anchors :
                     ALL_PARTICLES[key][k] = Anchor(node, k)

\* The coefficients a generated particle node takes from its parent: the
\* non-zero parent_c* arguments of its format_diff call.
ParentAnchors(node) ==
    { k \in { "c5", "c4", "c3", "c2" } : node["parent_" \o k] # 0 }

\* Particle p carries the coefficients that node's parent anchors.
MatchesAnchors(p, node) ==
    \A k \in ParentAnchors(node) : p[k] = node["parent_" \o k]

\* C16: every particle leaf of a generated tree is attached to the most
\* specific node whose anchored coefficients it shares: its coefficients
\* equal the parent's anchored coefficients on every anchored power, and no
\* other node of the same tree anchors a strict superset of them that the
\* particle also matches.
C16_MostSpecificNode ==
    (Done("node") /\ inp.node.key # NoneVal)
        => /\ MatchesAnchors(inp.p, inp.node)
           /\ \A t \in DOMAIN Trees : \A m \in Range(Trees[t]) :
                 ( /\ inp.node \in Range(Trees[t])
                   /\ m.type # "virtual"
                   /\ ParentAnchors(inp.node) \subseteq ParentAnchors(m)
                   /\ ParentAnchors(inp.node) # ParentAnchors(m)
                   /\ \A k \in ParentAnchors(inp.node) :
                         m["parent_" \o k] = inp.node["parent_" \o k] )
                     => ~MatchesAnchors(inp.p, m)

(***************************************************************************)
(* Correction display and mass data of one particle: its display string is *)
(* taken from correction_latex when its node is generated                  *)
(* (generate_baryon_tree.py:155-160), its mass data are computed when the  *)
(* node is enriched (generate_baryon_tree.py:1130-1146).                   *)
(***************************************************************************)
LatexBodies ==
    { "", "4", "12", "x", "\\pi", "\\frac{8}{\\pi}", "\\frac{\\pi}{6}",
      "\\frac{4}{5}", "\\frac{}{5}", "\\frac{4}{5}{6}", "\\frac{\\varphi}{5}",
      "\\frac{\\left(1\\right)}{2}", "\\frac{1}{\\right}",
      "\\frac{1}{5}\\left(\\pi - 2\\right)", "\\pi - \\frac{1}{\\pi}",
      "\\frac{6}{5}\\left(\\pi - e^{-\\pi}\\right)" }

LatexInputs ==
    { [ p |-> ALL_PARTICLES[k], unc_key |-> k ] : k \in DOMAIN ALL_PARTICLES }
    \cup { [ p |-> [ ALL_PARTICLES[k] EXCEPT
                         !.correction_latex = lead \o sign \o body \o tail ],
             unc_key |-> k ] :
           k \in { "proton", "Sigma_b_star_plus" }, lead \in { "", " " },
           sign \in { "", "+", "-" }, body \in LatexBodies,
           tail \in { "", "e^{-\\pi}", " " } }

InitLatex ==
    /\ pc = "ready"
    /\ inp \in LatexInputs
    /\ out = [ display |-> NoneVal ]

CorrectionDisplay ==
    /\ pc = "ready"
    /\ out' = [ display |-> latex_to_display(inp.p.correction_latex) ]
    /\ pc' = "displayed"
    /\ UNCHANGED inp

MassData ==
    /\ pc = "displayed"
    /\ out' = [ display |-> out.display,
                data    |-> compute_mass_data(inp.p, inp.unc_key) ]
    /\ pc' = "done"
    /\ UNCHANGED inp

NextLatex == CorrectionDisplay \/ MassData

SpecLatex == InitLatex /\ [][NextLatex]_vars

OmegaLiteral == "-\\frac{6}{5}\\left(\\pi - e^{-\\pi}\\right)"

XiZeroLiteral == "-\\pi - \\frac{1}{\\pi}"

\* The displays of the shapes that a stripped expression has, one per shape:
\* signed integer, fraction, fraction times e^-pi, hard-coded literal.
ShapeDisplays(s) ==
    LET m  == MatchFrac(s, "")
        m2 == MatchFrac(s, "e^{-\\pi}")
    IN  (IF IsPlainNumber(s)
         THEN { IF StartsWith(s, "+") \/ StartsWith(s, "-") THEN s ELSE "+" \o s }
         ELSE {})
        \cup (IF m.ok
              THEN { m.sign \o ReplacePi(m.num) \o "/" \o ReplacePi(m.denom) }
              ELSE {})
        \cup (IF m2.ok
              THEN { m2.sign \o "(" \o m2.num \o "/" \o m2.denom \o ")e^-pi" }
              ELSE {})
        \cup (IF s = OmegaLiteral THEN { "-(6/5)(pi - e^-pi)" } ELSE {})
        \cup (IF s = XiZeroLiteral THEN { "-pi - 1/pi" } ELSE {})

\* C17: latex_to_display returns a value for every expression: None for an
\* empty one, for one that contains \left or \right and is not a hard-coded
\* literal, and for one outside the recognised grammar; the mass data of the
\* particle are the same whether or not it has a display.
C17_NoDisplayIsNone ==
    LET latex == inp.p.correction_latex
        s     == strip(latex)
    IN  /\ pc # "ready"
            => /\ out.display \in STRING
               /\ latex = "" => out.display = NoneVal
               /\ ( /\ Contains(latex, "\\left") \/ Contains(latex, "\\right")
                    /\ s \notin { OmegaLiteral, XiZeroLiteral } )
                     => out.display = NoneVal
               /\ ShapeDisplays(s) = {} => out.display = NoneVal
        /\ pc = "done"
            => out.data = compute_mass_data([ inp.p EXCEPT !.correction_latex = "" ],
                                            inp.unc_key)

C17_Witness ==
    /\ pc = "done"
    /\ inp.unc_key = "proton"
    /\ inp.p.correction_latex = "\\frac{1}{5}\\left(\\pi - 2\\right)"
    /\ out.display = NoneVal
    /\ out.data = compute_mass_data(ALL_PARTICLES["proton"], "proton")

\* C18 as stated: the shapes are disjoint and the display is that of the
\* shape the expression has, None when it has none.
C18_FirstShapeDecides ==
    (pc # "ready" /\ inp.p.correction_latex # "")
        => LET shapes == ShapeDisplays(strip(inp.p.correction_latex))
           IN  /\ Cardinality(shapes) <= 1
               /\ out.display = IF shapes = {} THEN NoneVal
                                ELSE CHOOSE d \in shapes : TRUE

\* C18: the four shapes are disjoint and the display is that of the shape
\* the expression has, None when it has none, except that an expression
\* containing \left or \right other than the Omega literal has no display
\* whatever its shape.
C18_ShapesAndRejection ==
    (pc # "ready" /\ inp.p.correction_latex # "")
        => LET latex  == inp.p.correction_latex
               shapes == ShapeDisplays(strip(latex))
           IN  /\ Cardinality(shapes) <= 1
               /\ out.display =
                     IF /\ Contains(latex, "\\left") \/ Contains(latex, "\\right")
                        /\ strip(latex) # OmegaLiteral
                     THEN NoneVal
                     ELSE IF shapes = {} THEN NoneVal
                     ELSE CHOOSE d \in shapes : TRUE

C18_Witness ==
    /\ pc = "displayed"
    /\ inp.p.correction_latex = "\\frac{\\left(1\\right)}{2}"
    /\ MatchFrac(inp.p.correction_latex, "").ok
    /\ out.display = NoneVal

IsProtonNode ==
    /\ Done("node")
    /\ inp.node.key = "proton"
    /\ inp.p = PARTICLES["proton"]
    /\ inp.p.c5 = Whole(6)
    /\ inp.node.parent_c5 = Whole(6)
    /\ inp.p.correction_latex = "\\frac{4}{5}e^{-\\pi}"

\* C19 as stated: the proton's polynomial diff is empty and its correction
\* display is exactly "(4/5)e^-pi".
C19_ProtonUnsigned ==
    IsProtonNode
        => /\ out.poly = ""
           /\ out.correction = "(4/5)e^-pi"

\* C19: the proton's polynomial diff is empty, its correction display is
\* exactly "+(4/5)e^-pi", with the explicit sign, and is carried by the
\* node's correction field beside an empty sublabel.
C19_ProtonSigned ==
    IsProtonNode
        => /\ out.poly = ""
           /\ out.correction = "+(4/5)e^-pi"
           /\ out.sublabel = ""

C19_Witness ==
    /\ IsProtonNode
    /\ out.correction = "+(4/5)e^-pi"

(***************************************************************************)
(* Experimental values and the divisions by them.  An experimental mass,   *)
(* like mu_exp, is kept as the digits of its literal; a division raises    *)
(* ZeroDivisionError when its divisor is zero.                             *)
(***************************************************************************)
MASS_EXP ==
    "proton" :> "938.27208816" @@
    "neutron" :> "939.56542052" @@
    "Lambda" :> "1115.683" @@
    "Sigma_plus" :> "1189.37" @@
    "Sigma_zero" :> "1192.642" @@
    "Sigma_minus" :> "1197.449" @@
    "Xi_zero" :> "1314.86" @@
    "Xi_minus" :> "1321.71" @@
    "Delta" :> "1232.0" @@
    "Sigma_star_plus" :> "1382.80" @@
    "Sigma_star_zero" :> "1383.7" @@
    "Sigma_star_minus" :> "1387.2" @@
    "Xi_star_zero" :> "1531.80" @@
    "Xi_star_minus" :> "1535.0" @@
    "Omega" :> "1672.45" @@
    "Lambda_c" :> "2286.46" @@
    "Sigma_c_pp" :> "2453.97" @@
    "Sigma_c_plus" :> "2452.9" @@
    "Sigma_c_zero" :> "2453.75" @@
    "Xi_c_plus" :> "2467.71" @@
    "Xi_c_zero" :> "2470.44" @@
    "Omega_c" :> "2695.2" @@
    "Sigma_c_star_pp" :> "2518.41" @@
    "Sigma_c_star_plus" :> "2517.5" @@
    "Sigma_c_star_zero" :> "2518.48" @@
    "Xi_c_star_plus" :> "2645.57" @@
    "Xi_c_star_zero" :> "2646.38" @@
    "Omega_c_star" :> "2765.9" @@
    "Xi_cc_pp" :> "3621.55" @@
    "Lambda_b" :> "5619.60" @@
    "Sigma_b_plus" :> "5810.56" @@
    "Sigma_b_minus" :> "5815.64" @@
    "Sigma_b_star_plus" :> "5830.32" @@
    "Sigma_b_star_minus" :> "5834.74" @@
    "Xi_b_zero" :> "5791.9" @@
    "Xi_b_minus" :> "5797.0" @@
    "Omega_b" :> "6046.1"

MESON_MASS_EXP ==
    "pi_pm" :> "139.57039" @@
    "pi_0" :> "134.9768" @@
    "rho" :> "775.11" @@
    "omega" :> "782.66" @@
    "K_pm" :> "493.677" @@
    "K_0" :> "497.611" @@
    "eta" :> "547.862" @@
    "eta_prime" :> "957.78" @@
    "phi" :> "1019.461" @@
    "D_pm" :> "1869.66" @@
    "D_0" :> "1864.84" @@
    "D_s" :> "1968.35" @@
    "J_psi" :> "3096.900" @@
    "B_pm" :> "5279.34" @@
    "B_0" :> "5279.65" @@
    "B_s" :> "5366.92" @@
    "Upsilon" :> "9460.30" @@
    "muon" :> "105.6583755"

RESONANCE_MASS_EXP ==
    "Lambda_1405" :> "1405.1" @@
    "Roper" :> "1440.0" @@
    "N_1535" :> "1535.0" @@
    "Lambda_1520" :> "1519.5" @@
    "N_1680" :> "1685.0" @@
    "Delta_1700" :> "1700.0" @@
    "X_3872" :> "3871.65" @@
    "N_2190" :> "2190.0"

\* IsZero taking a literal with some zero digit for zero.
IsZero_any_digit(digits) ==
    \E i \in 1..Len(digits) : SubSeq(digits, i, i) = "0"

\* A float literal is zero when all its digits are.
IsZero(digits) ==
    \A i \in 1..Len(digits) : SubSeq(digits, i, i) \in { "0", "." }

Divide(num, den, den_is_zero) ==
    IF den_is_zero THEN [ raised |-> TRUE ]
    ELSE [ raised |-> FALSE, num |-> num, den |-> den ]

\* Particle.error_ppm: 1e6 * self.error_mev() / self.mass_exp
error_ppm(key) ==
    Divide(error_ev(ALL_PARTICLES[key]), MASS_EXP[key], IsZero(MASS_EXP[key]))

\* Meson.error_percent: 100 * abs(self.error_mev()) / self.mass_exp
Meson_error_percent(key) ==
    Divide(Times(Whole(100), Meson_error_mev((MESONS @@ LEPTONS)[key])),
           MESON_MASS_EXP[key], IsZero(MESON_MASS_EXP[key]))

\* MagneticMoment.mu_calc, with the ZeroDivisionError of its first two
\* branches.
MagneticMoment_mu_calc(mm) ==
    IF mm.pi_power <= 0 /\ mm.denominator = 0 THEN [ raised |-> TRUE ]
    ELSE [ raised |-> FALSE, value |-> mu_calc(mm) ]

\* MagneticMoment.error_percent: 100 * abs(mu_calc() - mu_exp) / abs(mu_exp)
MagneticMoment_error_percent(mm) ==
    IF MagneticMoment_mu_calc(mm).raised THEN [ raised |-> TRUE ]
    ELSE Divide(mu_calc(mm), mm.mu_exp.digits, IsZero(mm.mu_exp.digits))

(***************************************************************************)
(* data/mesons.py: Meson.formula_latex.  A coefficient n stands for n/Den, *)
(* so Fraction(c).limit_denominator(10) is n/Den in lowest terms.          *)
(***************************************************************************)
limit_denominator(c) ==
    LET g == CHOOSE d \in 1..Den :
                 /\ c % d = 0 /\ Den % d = 0
                 /\ \A d2 \in 1..Den : (c % d2 = 0 /\ Den % d2 = 0) => d2 <= d
    IN  [ numerator |-> c \div g, denominator |-> Den \div g ]

\* A term of c5..c2 rendered as the c1 term is: a fraction when not whole.
ExactPowerTerm(c, power, has_terms) ==
    LET sign == IF c > 0 /\ has_terms THEN "+" ELSE ""
        frac == limit_denominator(c)
    IN  IF c = Whole(1) THEN sign \o power
        ELSE IF c = Whole(-1) THEN "-" \o power
        ELSE IF IsWhole(c) THEN sign \o IntStr(int(c)) \o power
        ELSE (IF frac.numerator < 0 THEN "-" ELSE IF has_terms THEN "+" ELSE "")
             \o "\\frac{" \o IntStr(abs(frac.numerator)) \o "}{"
             \o IntStr(frac.denominator) \o "}" \o power

\* The term of c5, c4, c3 or c2 (lines 94-127); the list is empty before c5.
PowerTerm(c, power, has_terms) ==
    LET sign == IF c > 0 /\ has_terms THEN "+" ELSE ""
    IN  IF c = Whole(1) THEN sign \o power
        ELSE IF c = Whole(-1) THEN "-" \o power
        ELSE sign \o IntStr(int(c)) \o power

\* The term of c1 (lines 129-146).
LinearTerm(c, has_terms) ==
    LET sign == IF c > 0 /\ has_terms THEN "+" ELSE ""
        frac == limit_denominator(c)
    IN  IF c = Whole(1) THEN sign \o "\\pi"
        ELSE IF c = Whole(-1) THEN "-\\pi"
        ELSE IF IsWhole(c) THEN sign \o IntStr(int(c)) \o "\\pi"
        ELSE IF frac.denominator = 1 THEN sign \o IntStr(frac.numerator) \o "\\pi"
        ELSE (IF frac.numerator < 0 THEN "-" ELSE IF has_terms THEN "+" ELSE "")
             \o "\\frac{" \o IntStr(abs(frac.numerator)) \o "}{"
             \o IntStr(frac.denominator) \o "}\\pi"

\* The term of c0 (lines 148-159).
ConstTerm(c, has_terms) ==
    LET sign == IF c > 0 /\ has_terms THEN "+" ELSE ""
        frac == limit_denominator(c)
    IN  IF IsWhole(c) THEN sign \o IntStr(int(c))
        ELSE IF frac.denominator = 1 THEN sign \o IntStr(frac.numerator)
        ELSE (IF frac.numerator < 0 THEN "-" ELSE IF has_terms THEN "+" ELSE "")
             \o "\\frac{" \o IntStr(abs(frac.numerator)) \o "}{"
             \o IntStr(frac.denominator) \o "}"

RECURSIVE JoinWith(_, _)
JoinWith(parts, sep) ==
    IF parts = <<>> THEN ""
    ELSE IF Len(parts) = 1 THEN Head(parts)
    ELSE Head(parts) \o sep \o JoinWith(Tail(parts), sep)

formula_latex(m, correction_latex) ==
    LET t5 == IF m.c5 # 0 THEN << PowerTerm(m.c5, "\\pi^5", FALSE) >> ELSE <<>>
        t4 == IF m.c4 # 0 THEN Append(t5, PowerTerm(m.c4, "\\pi^4", t5 # <<>>)) ELSE t5
        t3 == IF m.c3 # 0 THEN Append(t4, PowerTerm(m.c3, "\\pi^3", t4 # <<>>)) ELSE t4
        t2 == IF m.c2 # 0 THEN Append(t3, PowerTerm(m.c2, "\\pi^2", t3 # <<>>)) ELSE t3
        t1 == IF m.c1 # 0 THEN Append(t2, LinearTerm(m.c1, t2 # <<>>)) ELSE t2
        t0 == IF m.c0 # 0 THEN Append(t1, ConstTerm(m.c0, t1 # <<>>)) ELSE t1
        base == JoinWith(t0, " ")
    IN  IF correction_latex # ""
        THEN IF StartsWith(correction_latex, "-")
             THEN base \o " " \o correction_latex
             ELSE base \o " + " \o correction_latex
        ELSE base

InitTables ==
    /\ pc = "ready"
    /\ inp \in [ op : {"error_ppm"}, key : DOMAIN ALL_PARTICLES ]
               \cup [ op : {"error_percent"}, key : DOMAIN MESON_MASS_EXP ]
               \cup [ op : {"moment"},
                      mm : Range(MAGNETIC_MOMENTS)
                           \cup { MagneticMoment("x", n < 0, digits, n, k, d) :
                                  n \in { -6, 8 }, k \in -3..3, d \in { 1, 2, 9 },
                                  digits \in { "1.25", "0.0" } } ]
               \cup { [ op |-> "formula_latex", m |-> (MESONS @@ LEPTONS)[k],
                        correction_latex |->
                            IF k = "pi_pm" THEN "6e^{-\\pi}"
                            ELSE IF k = "muon" THEN "-20e^{-\\pi}" ELSE "" ] :
                      k \in DOMAIN MESON_MASS_EXP }
               \cup { [ op |-> "formula_latex",
                        m |-> Meson(c5, 0, c3, c2, c1, c0, l # ""),
                        correction_latex |-> l ] :
                      c5 \in { Whole(-1), 0, Frac(3, 2) },
                      c3 \in { 0, Whole(2) },
                      c2 \in { Frac(-1, 2), 0, Whole(1) },
                      c1 \in { Frac(-6, 5), 0, Frac(5, 2) },
                      c0 \in { Whole(-1), 0, Frac(3, 10) },
                      l \in { "", "6e^{-\\pi}" } }
    /\ out = NoneVal

EvalErrorPpm ==
    /\ pc = "ready"
    /\ inp.op = "error_ppm"
    /\ out' = error_ppm(inp.key)
    /\ pc' = "done"
    /\ UNCHANGED inp

EvalErrorPercent ==
    /\ pc = "ready"
    /\ inp.op = "error_percent"
    /\ out' = Meson_error_percent(inp.key)
    /\ pc' = "done"
    /\ UNCHANGED inp

EvalMoment ==
    /\ pc = "ready"
    /\ inp.op = "moment"
    /\ out' = [ mu_calc       |-> MagneticMoment_mu_calc(inp.mm),
                error_percent |-> MagneticMoment_error_percent(inp.mm) ]
    /\ pc' = "done"
    /\ UNCHANGED inp

EvalFormulaLatex ==
    /\ pc = "ready"
    /\ inp.op = "formula_latex"
    /\ out' = formula_latex(inp.m, inp.correction_latex)
    /\ pc' = "done"
    /\ UNCHANGED inp

NextTables == EvalErrorPpm \/ EvalErrorPercent \/ EvalMoment \/ EvalFormulaLatex

SpecTables == InitTables /\ [][NextTables]_vars

C24_MuCalc ==
    Done("moment")
        => /\ ~out.mu_calc.raised
           /\ out.mu_calc.value = [ numerator   |-> inp.mm.numerator,
                                    pi          |-> -inp.mm.pi_power,
                                    denominator |-> inp.mm.denominator ]
           /\ inp.mm.key = "p"
                 => out.mu_calc.value = [ numerator |-> 8, pi |-> 1, denominator |-> 9 ]

\* formula_latex with every coefficient rendered as the integer it is or as
\* its reduced fraction.
ExactFormula(m, correction_latex) ==
    LET t5 == IF m.c5 # 0 THEN << ExactPowerTerm(m.c5, "\\pi^5", FALSE) >> ELSE <<>>
        t4 == IF m.c4 # 0 THEN Append(t5, ExactPowerTerm(m.c4, "\\pi^4", t5 # <<>>)) ELSE t5
        t3 == IF m.c3 # 0 THEN Append(t4, ExactPowerTerm(m.c3, "\\pi^3", t4 # <<>>)) ELSE t4
        t2 == IF m.c2 # 0 THEN Append(t3, ExactPowerTerm(m.c2, "\\pi^2", t3 # <<>>)) ELSE t3
        t1 == IF m.c1 # 0 THEN Append(t2, LinearTerm(m.c1, t2 # <<>>)) ELSE t2
        t0 == IF m.c0 # 0 THEN Append(t1, ConstTerm(m.c0, t1 # <<>>)) ELSE t1
        base == JoinWith(t0, " ")
    IN  IF correction_latex # ""
        THEN IF StartsWith(correction_latex, "-")
             THEN base \o " " \o correction_latex
             ELSE base \o " + " \o correction_latex
        ELSE base

\* C22: in the rendered formula of a meson or lepton every whole coefficient
\* c5..c0 is rendered as that integer and every other coefficient as its
\* reduced fraction of denominator at most 10, none as a truncated integer.
C22_NoTruncation ==
    Done("formula_latex") => out = ExactFormula(inp.m, inp.correction_latex)

MaxPages == 2

MaxEvents == 2

PAGES ==
    << "index.html", "baryon_cycle.html", "charm_cycle.html",
       "bottom_cycle.html", "mesons.html", "magnetic.html", "formulas.html",
       "framework.html", "lorentz.html", "q_calculus.html", "seven.html" >>

\* The page list, cut to its first MaxPages entries.
pages == SubSeq(PAGES, 1, IF MaxPages < Len(PAGES) THEN MaxPages ELSE Len(PAGES))

StaticFiles == { "style.css" }

Threads == { "main", "observer" }

Idle == [ at |-> 0, written |-> <<>>, skipped |-> <<>> ]

InitBuild ==
    /\ pc = "start"
    /\ inp \in [ watch : BOOLEAN, templates : SUBSET Range(pages),
                 static : SUBSET StaticFiles ]
    /\ out = [ dist_pages |-> {}, dist_static |-> {}, fresh |-> FALSE,
               build |-> [ th \in Threads |-> Idle ], queue |-> <<>> ]

\* build() is entered (lines 35-40): by the main thread, or by the
\* observer's thread from on_modified.
EnterBuild(th) == [ out EXCEPT !.build[th] = [ Idle EXCEPT !.at = 1 ] ]

\* python build.py [--watch]: the main thread calls build().
MainBuild ==
    /\ pc = "start"
    /\ out' = EnterBuild("main")
    /\ pc' = "building"
    /\ UNCHANGED inp

\* Lines 43-46: the static tree of dist is removed and copied again.
CopyStatic(th) ==
    /\ out.build[th].at = 1
    /\ out' = [ out EXCEPT !.dist_static = inp.static, !.build[th].at = 2 ]
    /\ UNCHANGED << pc, inp >>

\* One iteration of the page loop in which a missing template ends build().
BuildPage_abort_on_missing(th) ==
    /\ out.build[th].at \in 2..(Len(pages) + 1)
    /\ LET page == pages[out.build[th].at - 1] IN
       out' = IF page \notin inp.templates
              THEN [ out EXCEPT !.build[th].skipped = Append(@, page),
                                !.build[th].at = Len(pages) + 2 ]
              ELSE [ out EXCEPT !.dist_pages = @ \cup { page },
                                !.build[th].written = Append(@, page),
                                !.build[th].at = @ + 1 ]
    /\ UNCHANGED << pc, inp >>

\* One iteration of the page loop (lines 91-102).
BuildPage(th) ==
    /\ out.build[th].at \in 2..(Len(pages) + 1)
    /\ LET page == pages[out.build[th].at - 1] IN
       out' = IF page \notin inp.templates
              THEN [ out EXCEPT !.build[th].skipped = Append(@, page),
                                !.build[th].at = @ + 1 ]
              ELSE [ out EXCEPT !.dist_pages = @ \cup { page },
                                !.build[th].written = Append(@, page),
                                !.build[th].at = @ + 1 ]
    /\ UNCHANGED << pc, inp >>

\* Line 104: build() returns; the main thread goes on (lines 122-124, 144).
FinishBuild(th) ==
    /\ out.build[th].at = Len(pages) + 2
    /\ out' = [ out EXCEPT !.build[th].at = 0, !.fresh = TRUE ]
    /\ pc' = IF th # "main" THEN pc
             ELSE IF inp.watch THEN "built" ELSE "exit"
    /\ UNCHANGED inp

BuildStep(th) == CopyStatic(th) \/ BuildPage(th) \/ FinishBuild(th)

\* watch() starting the observer before its initial build.
StartObserver_before_build ==
    /\ pc \in { "start", "building", "built" }
    /\ inp.watch
    /\ pc' = "observing"
    /\ UNCHANGED << inp, out >>

\* Lines 124-128: the observer is started after the initial build.
StartObserver ==
    /\ pc = "built"
    /\ inp.watch
    /\ pc' = "observing"
    /\ UNCHANGED << inp, out >>

\* A file under a watched directory is modified: the observer queues the
\* event, whatever the dispatch thread is doing.
QueueEvent ==
    /\ pc = "observing"
    /\ Len(out.queue) < MaxEvents
    /\ \E src_path \in { "index.html", "notes.txt" } :
          out' = [ out EXCEPT !.queue = Append(@, src_path) ]
    /\ UNCHANGED << pc, inp >>

\* The observer's thread takes the next event and calls on_modified
\* (lines 117-120), which returns when its build() has returned.
Dispatch ==
    /\ pc = "observing"
    /\ out.queue # <<>>
    /\ out.build["observer"].at = 0
    /\ out' = IF \E suffix \in { ".html", ".css", ".py" } :
                    Len(Head(out.queue)) >= Len(suffix)
                    /\ Drop(Head(out.queue), Len(Head(out.queue)) - Len(suffix)) = suffix
              THEN [ EnterBuild("observer") EXCEPT !.queue = Tail(@) ]
              ELSE [ out EXCEPT !.queue = Tail(@) ]
    /\ UNCHANGED << pc, inp >>

\* Between two builds templates and static files are added or removed.
ChangeFiles ==
    /\ pc \in { "exit", "observing" }
    /\ \A th \in Threads : out.build[th].at = 0
    /\ \E templates \in SUBSET Range(pages), static \in SUBSET StaticFiles :
          /\ << templates, static >> # << inp.templates, inp.static >>
          /\ inp' = [ inp EXCEPT !.templates = templates, !.static = static ]
    /\ out' = [ out EXCEPT !.fresh = FALSE ]
    /\ UNCHANGED pc

\* python build.py is run again.
RunAgain ==
    /\ pc = "exit"
    /\ pc' = "start"
    /\ UNCHANGED << inp, out >>

NextBuild ==
    \/ MainBuild
    \/ \E th \in Threads : BuildStep(th)
    \/ StartObserver
    \/ QueueEvent
    \/ Dispatch
    \/ ChangeFiles
    \/ RunAgain

SpecBuild ==
    InitBuild /\ [][NextBuild]_vars /\ WF_vars(\E th \in Threads : BuildStep(th))

\* The pages of the list that build() of thread th has gone through.
PagesDone(th) == SubSeq(pages, 1, out.build[th].at - 2)

LoopAsClaimed(th) ==
    out.build[th].at >= 2
        => /\ out.build[th].written
                = SelectSeq(PagesDone(th), LAMBDA page : page \in inp.templates)
           /\ out.build[th].skipped
                = SelectSeq(PagesDone(th), LAMBDA page : page \notin inp.templates)
           /\ Range(out.build[th].written) \subseteq out.dist_pages

\* C25: in one run of build() the pages are taken in list order; a page
\* whose template is missing is skipped and the loop goes on, every other
\* page is written, and the build terminates after the last page.
C25_SkipAndContinue ==
    /\ [](LoopAsClaimed("main") /\ LoopAsClaimed("observer"))
    /\ (out.build["main"].at > 0) ~> (out.build["main"].at = 0)
    /\ (out.build["observer"].at > 0) ~> (out.build["observer"].at = 0)

C25_Witness ==
    /\ out.build["main"].at = Len(pages) + 2
    /\ out.build["main"].skipped = << pages[1] >>
    /\ pages[Len(pages)] \in Range(out.build["main"].written)
    /\ pages[Len(pages)] \in out.dist_pages

C27_DistRegenerated ==
    (out.fresh /\ \A th \in Threads : out.build[th].at = 0)
        => /\ out.dist_pages = inp.templates
           /\ out.dist_static = inp.static

(***************************************************************************)
(* generate_baryon_tree.py: the edge lists of the three generators, in the *)
(* order of their edges.append calls, and the generators as the sequence   *)
(* of their append statements: the root's nodes.append, then for each      *)
(* further node its nodes.append followed by its edges.append.             *)
(***************************************************************************)
Edge(source, target) == [ source |-> source, target |-> target ]

LIGHT_EDGES ==
    <<
       Edge("root6", "p"),
       Edge("root6", "n"),
       Edge("root6", "D"),
       Edge("root6", "v7"),
       Edge("v7", "L0"),
       Edge("v7", "vS6pi3"),
       Edge("vS6pi3", "S_plus"),
       Edge("vS6pi3", "S_zero"),
       Edge("vS6pi3", "S_minus"),
       Edge("v7", "vSs6pi4"),
       Edge("vSs6pi4", "Ss_plus"),
       Edge("vSs6pi4", "Ss_zero"),
       Edge("vSs6pi4", "Ss_minus"),
       Edge("v7", "v8"),
       Edge("v8", "vXpi4pi3"),
       Edge("vXpi4pi3", "X_zero"),
       Edge("vXpi4pi3", "X_minus"),
       Edge("v8", "vXs6pi4"),
       Edge("vXs6pi4", "Xs_zero"),
       Edge("vXs6pi4", "Xs_minus"),
       Edge("v8", "v9"),
       Edge("v9", "Om")
    >>

CHARM_EDGES ==
    <<
       Edge("root14", "Lc"),
       Edge("root14", "vSc"),
       Edge("vSc", "Sc_pp"),
       Edge("vSc", "Sc_plus"),
       Edge("vSc", "Sc_zero"),
       Edge("root14", "vScs"),
       Edge("vScs", "Scs_pp"),
       Edge("vScs", "Scs_plus"),
       Edge("vScs", "Scs_zero"),
       Edge("root14", "v15"),
       Edge("v15", "vXc"),
       Edge("vXc", "Xc_plus"),
       Edge("vXc", "Xc_zero"),
       Edge("v15", "vXcs"),
       Edge("vXcs", "Xcs_plus"),
       Edge("vXcs", "Xcs_zero"),
       Edge("v15", "v16"),
       Edge("v16", "Oc_zero"),
       Edge("v16", "Ocs_zero"),
       Edge("root14", "Xcc")
    >>

BOTTOM_EDGES ==
    <<
       Edge("root36", "Lb"),
       Edge("root36", "Sb_plus"),
       Edge("root36", "Sb_minus"),
       Edge("root36", "v37"),
       Edge("v37", "Xb_zero"),
       Edge("v37", "Xb_minus"),
       Edge("v37", "v38"),
       Edge("v38", "Ob")
    >>

TreeEdges == [ light |-> LIGHT_EDGES, charm |-> CHARM_EDGES, bottom |-> BOTTOM_EDGES ]

InitGen ==
    /\ pc = "gen_node"
    /\ inp \in [ tree : DOMAIN Trees ]
    /\ out = [ nodes |-> <<>>, edges |-> <<>> ]

AppendNode ==
    /\ pc = "gen_node"
    /\ Len(out.nodes) < Len(Trees[inp.tree])
    /\ out' = [ out EXCEPT !.nodes =
                    Append(@, Trees[inp.tree][Len(@) + 1]) ]
    /\ pc' = IF Len(out.nodes) = 0 THEN "gen_node" ELSE "gen_edge"
    /\ UNCHANGED inp

\* AppendEdge with the edge's source and target exchanged.
AppendEdge_reversed ==
    /\ pc = "gen_edge"
    /\ out' = [ out EXCEPT !.edges =
                    Append(@, Edge(TreeEdges[inp.tree][Len(@) + 1].target,
                                   TreeEdges[inp.tree][Len(@) + 1].source)) ]
    /\ pc' = "gen_node"
    /\ UNCHANGED inp

AppendEdge ==
    /\ pc = "gen_edge"
    /\ out' = [ out EXCEPT !.edges =
                    Append(@, TreeEdges[inp.tree][Len(@) + 1]) ]
    /\ pc' = "gen_node"
    /\ UNCHANGED inp

ReturnNodesEdges ==
    /\ pc = "gen_node"
    /\ Len(out.nodes) = Len(Trees[inp.tree])
    /\ pc' = "gen_done"
    /\ UNCHANGED <<inp, out>>

NextGen == AppendNode \/ AppendEdge \/ ReturnNodesEdges

SpecGen == InitGen /\ [][NextGen]_vars

\* The positions of the nodes with the given id in the list built so far.
PositionsOf(id) == { i \in DOMAIN out.nodes : out.nodes[i].id = id }

\* The positions of the edges whose target is the given id.
EdgesInto(id) == { k \in DOMAIN out.edges : out.edges[k].target = id }

\* C28: each generated node/edge list is a rooted tree in declaration
\* order.  While a generator runs, every edge appended so far has a source
\* and a target that are ids of nodes already in the list, the source at an
\* earlier position than the target.  When it returns, the ids are pairwise
\* distinct, the first node (the virtual root) is the one node that is the
\* target of no edge, and every other node is the target of exactly one.
C28_RootedTree ==
    pc \in { "gen_node", "gen_edge", "gen_done" } =>
        /\ \A k \in DOMAIN out.edges :
               /\ PositionsOf(out.edges[k].source) # {}
               /\ PositionsOf(out.edges[k].target) # {}
               /\ \A i \in PositionsOf(out.edges[k].source) :
                      \A j \in PositionsOf(out.edges[k].target) : i < j
        /\ pc = "gen_done" =>
               /\ \A i, j \in DOMAIN out.nodes :
                      i # j => out.nodes[i].id # out.nodes[j].id
               /\ { i \in DOMAIN out.nodes : EdgesInto(out.nodes[i].id) = {} } = { 1 }
               /\ out.nodes[1].type = "virtual"
               /\ \A i \in DOMAIN out.nodes :
                      i # 1 => Cardinality(EdgesInto(out.nodes[i].id)) = 1

\* The charm generator has returned; its last edge joins the root to the
\* last node, twenty positions apart.
C28_Witness ==
    /\ pc = "gen_done"
    /\ inp.tree = "charm"
    /\ Len(out.nodes) = Len(CHARM_TREE)
    /\ out.edges[Len(out.edges)] = Edge("root14", "Xcc")
    /\ out.nodes[Len(out.nodes)].id = "Xcc"

\* The declared tree of data/cycle.py for each generated tree.
TreeCycle == [ light |-> LIGHT_CYCLE, charm |-> CHARM_CYCLE, bottom |-> BOTTOM_CYCLE ]

\* The generated edges that join two virtual nodes.
VirtualEdges ==
    LET virtual == { n.id : n \in { m \in Range(out.nodes) : m.type = "virtual" } }
    IN  { <<g.source, g.target>> :
          g \in { h \in Range(out.edges) :
                      h.source \in virtual /\ h.target \in virtual } }

\* C29: the two declarations of the family trees agree.  When a generator
\* has returned, every particle node is listed by a node of the declared
\* tree that is the source of its edge and whose anchored c5, c4, c3, c2
\* are the parent coefficients of its format_diff call; the generated edges
\* between virtual nodes are the declared edges; and the declared edges are
\* the (parent, id) pairs of the declared nodes.
C29_DeclarationsAgree ==
    pc = "gen_done" =>
        LET cycle == TreeCycle[inp.tree]
        IN  /\ \A m \in Range(out.nodes) :
                   m.type # "virtual" =>
                       \E n \in Range(cycle.nodes) :
                           /\ m.key \in Range(n.particles)
                           /\ \A g \in Range(out.edges) :
                                  g.target = m.id => g.source = n.id
                           /\ \A k \in { "c5", "c4", "c3", "c2" } :
                                  m["parent_" \o k] = Anchor(n, k)
            /\ VirtualEdges = Range(cycle.edges)
            /\ Range(cycle.edges) =
                   { <<n.parent, n.id>> :
                     n \in { d \in Range(cycle.nodes) : d.parent # NoneVal } }

(***************************************************************************)
(* Loading a data module: data/baryons.py:25-28 and                        *)
(* data/resonances.py:44-47 import their constants from data/common.py,    *)
(* first relative to the package, then, on ImportError, from the top-level *)
(* module common.  Executing common.py defines its names one after the     *)
(* other; the import statement then binds the listed names in order and    *)
(* raises ImportError at the first one the module does not define.         *)
(*   form:    the module is loaded as part of the package data             *)
(*            (generate_baryon_tree.py:16) or as a top-level module        *)
(*            (build.py:18-21).                                            *)
(*   on_path: the directory data is on sys.path, so that the top-level     *)
(*            module common can be found.                                  *)
(***************************************************************************)
COMMON_NAMES ==
    << "PI", "M_E", "E_NEG_PI", "PI2", "PI3", "PI4", "PI5", "PI6", "PI7", "Q3_PI" >>

IMPORTED ==
    [ baryons    |-> << "PI", "M_E", "E_NEG_PI", "PI2", "PI3", "PI4", "PI5",
                        "PI6", "PI7", "Q3_PI", "LN_PI", "PHI" >>,
      resonances |-> << "PI", "M_E", "E_NEG_PI", "PI2", "PI3", "PI4", "PI5",
                        "PI6", "PI7" >> ]

\* Functions of the two modules and the imported names their bodies read.
FUNCTIONS ==
    [ baryons    |-> ( "proton_corr" :> { "E_NEG_PI" } @@
                       "lambda_corr" :> { "PHI" } @@
                       "delta_corr" :> { "PI", "E_NEG_PI" } @@
                       "omega_c_star_corr" :> { "LN_PI" } ),
      resonances |-> ( "lambda_1405_formula" :> { "PI7", "PI5", "PI4", "PI3" } @@
                       "x3872_formula" :> { "PI6", "PI5", "PI4", "PI" } ) ]

InitLoad ==
    /\ pc = "import_relative"
    /\ inp \in [ module : DOMAIN IMPORTED, form : { "package", "top_level" },
                 on_path : BOOLEAN ]
    /\ out = [ common |-> <<>>, bound |-> <<>>, in_try |-> TRUE,
               error |-> "", evaluated |-> "", ok |-> TRUE ]

\* try: from .common import ...
RelativeImport ==
    /\ pc = "import_relative"
    /\ IF inp.form = "package"
       THEN /\ pc' = "exec_common"
            /\ out' = out
       ELSE /\ pc' = "import_fallback"
            /\ out' = [ out EXCEPT !.error = "no_parent_package" ]
    /\ UNCHANGED inp

\* except ImportError: from common import ...
FallbackImport ==
    /\ pc = "import_fallback"
    /\ IF inp.on_path
       THEN /\ pc' = "exec_common"
            /\ out' = [ out EXCEPT !.common = <<>>, !.bound = <<>>,
                                   !.in_try = FALSE ]
       ELSE /\ pc' = "failed"
            /\ out' = [ out EXCEPT !.in_try = FALSE, !.error = "no_module_named" ]
    /\ UNCHANGED inp

ExecCommon ==
    /\ pc = "exec_common"
    /\ Len(out.common) < Len(COMMON_NAMES)
    /\ out' = [ out EXCEPT !.common = Append(@, COMMON_NAMES[Len(@) + 1]) ]
    /\ UNCHANGED <<pc, inp>>

CommonLoaded ==
    /\ pc = "exec_common"
    /\ Len(out.common) = Len(COMMON_NAMES)
    /\ pc' = "bind"
    /\ UNCHANGED <<inp, out>>

NextName == IMPORTED[inp.module][Len(out.bound) + 1]

BindName ==
    /\ pc = "bind"
    /\ Len(out.bound) < Len(IMPORTED[inp.module])
    /\ NextName \in Range(out.common)
    /\ out' = [ out EXCEPT !.bound = Append(@, NextName) ]
    /\ pc' = IF Len(out.bound) + 1 = Len(IMPORTED[inp.module])
             THEN "loaded" ELSE "bind"
    /\ UNCHANGED inp

RaiseImportError ==
    /\ pc = "bind"
    /\ Len(out.bound) < Len(IMPORTED[inp.module])
    /\ NextName \notin Range(out.common)
    /\ out' = [ out EXCEPT !.error = "cannot_import_name" ]
    /\ pc' = IF out.in_try THEN "import_fallback" ELSE "failed"
    /\ UNCHANGED inp

EvaluateCorrection ==
    /\ pc = "loaded"
    /\ \E f \in DOMAIN FUNCTIONS[inp.module] :
           out' = [ out EXCEPT !.evaluated = f,
                               !.ok = FUNCTIONS[inp.module][f] \subseteq Range(out.bound) ]
    /\ pc' = "evaluated"
    /\ UNCHANGED inp

NextLoad ==
    \/ RelativeImport
    \/ FallbackImport
    \/ ExecCommon
    \/ CommonLoaded
    \/ BindName
    \/ RaiseImportError
    \/ EvaluateCorrection

SpecLoad == InitLoad /\ [][NextLoad]_vars

\* C30: loading the baryon table cannot fail.  Whenever data/baryons.py is
\* loaded, under the package-relative import and under its fallback, no
\* import raises for a name that data/common.py does not define, and a
\* correction function that is evaluated finds every name it reads.
C30_LoadCannotFail ==
    inp.module = "baryons" =>
        /\ out.error # "cannot_import_name"
        /\ pc = "evaluated" => out.ok

====
